---- MODULE Spec2Model ----
(***************************************************************************)
(* Model of the real-time core of rust-voip-core.                          *)
(*                                                                         *)
(*   Spec     the audio session of src/audio_service.rs: the capture and   *)
(*            playback callbacks, the two SPSC rings, the DSP worker       *)
(*            thread, the global input (PTT) listener, edits of the shared *)
(*            settings and the release of the session handle.              *)
(*   SpecCap  the NVFBC capture handles of src/nvfbc_capture.rs,           *)
(*            src/nvfbc_gpu_capture.rs and src/nvfbc_lowpower.rs: new(),   *)
(*            the worker thread, shutdown() and drop.                      *)
(*                                                                         *)
(* Every try_push / try_pop / atomic load / atomic store is one step, so   *)
(* that the threads interleave at the granularity of the shared accesses.  *)
(***************************************************************************)
EXTENDS Integers, Sequences, FiniteSets, TLC

(***************************************************************************)
(* Sizes.  The source fixes the DSP frame at 480 samples and both rings at *)
(* 48000 * 2 samples; the model keeps the same code with these sizes       *)
(* scaled down, and bounds the length of a run.                            *)
(***************************************************************************)
\* samples per DSP frame (480 in the source)
FRAME_SIZE == 2
\* capacity of each ring (48000 * 2 in the source)
RING_CAPACITY == 3
\* push attempts of the capture callback in one run
MaxCaptured == 4
\* longest output of one resampler call
MaxResOut == 3
\* frames the NVFBC session hands out in one run
MaxFrames == 2

\* appsink max-buffers of the GPU converter
MAX_BUFFERS == 2

\* sample values: 0 is silence
SampleVals == {0, 1}

Keys == {"ControlLeft", "KeyA"}

\* AudioSettings::default().ptt_key
PttKey == "ControlLeft"

Events ==
    {[type |-> t, key |-> k] : t \in {"KeyPress", "KeyRelease"}, k \in Keys}
        \cup {[type |-> "MouseMove", key |-> "none"]}

VARIABLES
    \* ---- shared state of the audio session
    session_live,     \* the AudioSession handle (and so both streams) exists
    is_transmitting,  \* GlobalAudioState.is_transmitting
    ptt_enabled,      \* AudioSettings.ptt_enabled behind the shared Mutex
    ring_in,          \* capture -> DSP ring, oldest first
    ring_out,         \* DSP -> playback ring, oldest first
    \* ---- DSP worker thread
    dsp_pc,           \* position of the worker: "init", "loop", "pop",
                      \* "resample", "while", "gate", "resample_out", "push",
                      \* "sleep", "panicked"
    chunk,            \* samples popped so far for the input resampler
    dsp_buf,          \* scratch buffer of resampled samples
    frame,            \* the frame drained from dsp_buf
    clean,            \* output of the denoiser for that frame
    is_tx,            \* the value loaded at the gate
    output_frame,     \* the gated frame
    render_in,        \* the frame handed to process_render_frame
    res_o,            \* output resampler result still to be pushed
    \* ---- counters that number the samples
    cap_count,        \* push attempts of the capture callback so far
    res_count,        \* samples produced by the input resampler so far
    out_count,        \* push attempts on the output ring so far
    \* ---- history, read by the properties only
    pushed_in,        \* samples accepted by the capture ring, in push order
    popped_in,        \* samples the worker popped from the capture ring
    pushed_out,       \* samples accepted by the output ring, in push order
    popped_out,       \* samples the playback callback popped
    extracted,        \* frames drained from dsp_buf so far
    placed,           \* values placed in the output ring for the current frame
    tx_changed,       \* is_transmitting changed since the worker's gate load
    last_target_evt,  \* last target-key event handled with PTT enabled
    tx_base,          \* is_transmitting when that run of events began
    proc_err,         \* process_capture_frame failed on the frame at the gate
    \* ---- NVFBC capture handle and its worker (SpecCap)
    variant,          \* "cpu", "gpu" or "lowpower"
    running,          \* the shared AtomicBool
    handle,           \* caller side: "none", "live", "joining", "joined",
                      \* "returned", "dropped", "failed"
    cap_pc,           \* position of the capture worker thread: "none",
                      \* "gst_init", "converter", "create", "status", "start",
                      \* "loop", "next_frame", "stop", "conv_shutdown", "done"
    frame_count,      \* frames counted by the worker
    sink_frames,      \* capture_frame calls made on the video sink
    conv_pushed,      \* BGRA frames pushed to the GPU converter
    conv_pending,     \* converted frames queued in the converter's appsink
    conv_state,       \* GPU converter: "none", "playing", "null"
    stop_calls,       \* capturer.stop() calls
    started,          \* capturer.start() succeeded
    after_stop_frames,\* frames delivered after running was stored false
    last_result,      \* last outcome of next_frame: "none", "frame",
                      \* "timeout", "error"
    stop_err,         \* capturer.stop() returned Err
    stop_logged,      \* that failure was written to the log
    init_failed,      \* an initialization step of the worker failed
    joins,            \* joins of the worker thread made by the caller side
    \* ---- portal capturer PipeWireScreenShare (SpecPortal)
    pw_handle,        \* caller side: "none", "live", "sent", "returned",
                      \* "returned_err", "dropped", "failed"
    pw_task,          \* the spawned frame task: "none", "select", "exited"
    sd_queue,         \* messages waiting in the shutdown channel
    sd_tx,            \* the shutdown sender is alive
    sd_rx,            \* the shutdown receiver is alive
    fr_queue,         \* frames waiting in the frame channel
    fr_open,          \* the sending side of the frame channel is alive
    pw_produced,      \* frames the PipeWire manager has sent so far
    pw_converted,     \* frames the task has converted (process_frame calls)
    pw_seen,          \* what shutdown_rx.recv() returned to the task:
                      \* "none", "signal", "closed"
    \* ---- generic capturer ScreenShareService (SpecGeneric)
    gen_svc,          \* caller side: "none", "spawned", "live", "dropped",
                      \* "failed"
    gen_pc,           \* the capture thread: "none", "check", "capture",
                      \* "pace", "stopped"
    gen_pipe,         \* the pipeline: "none", "built", "playing"
    kill_tx,          \* the kill-channel sender is alive
    kill_queue,       \* messages waiting in the kill channel
    gen_pushed,       \* buffers the thread has pushed into appsrc
    gen_last,         \* outcome of the thread's last capture: "none",
                      \* "pushed", "badsize", "err", "pushfail"
    \* ---- one call of AudioSession::create (SpecCreate)
    cr_in_id,         \* the requested input device id, as a token sequence
    cr_devs,          \* names of the host's input devices, in host order
    cr_pc,            \* position of create: "in_device", "out_device",
                      \* "configs", "in_stream", "out_stream", "spawn",
                      \* "play_in", "play_out", "returned"
    cr_result,        \* "none", "ok", "err"
    cr_in_dev,        \* name of the input device create resolved, or <<>>
    cr_err,           \* the error create returned: "none", "no_mic",
                      \* "enumerate", "not_found", "other"
    cr_format,        \* sample format of the input config, or "none"
    cr_in_stream,     \* input stream: "none", "built", "playing", "dropped"
    cr_out_stream,    \* output stream, likewise
    cr_worker,        \* the DSP thread of this call: "none", "init_proc",
                      \* "init_res_in", "init_res_out", "loop", "panicked"
    \* ---- one call of a function that keeps no state (SpecPure)
    pf_fn,            \* which function is called
    pf_in,            \* its arguments
    pf_out,           \* <<its result>>, empty before the call
    \* ---- the session manager loop of main (SpecSession)
    input_device_id,  \* settings.input_device_id behind the shared Mutex
    ml_pc,            \* position of the loop: "read", "close", "create",
                      \* "sleep"
    current_id,       \* the id the loop read in this pass
    last_id,          \* the id of the last call of create, "" before it
    main_session,     \* `_session`: <<>> for None, <<id>> for Some
    live_sessions,    \* AudioSession values that exist
    attempts          \* calls of create so far: [id, ok] in call order

audioVars ==
    <<session_live, is_transmitting, ptt_enabled, ring_in, ring_out, dsp_pc,
      chunk, dsp_buf, frame, clean, is_tx, output_frame, render_in, res_o,
      cap_count, res_count, out_count, pushed_in, popped_in, pushed_out,
      popped_out, extracted, placed, tx_changed, last_target_evt, tx_base,
      proc_err>>

capVars ==
    <<variant, running, handle, cap_pc, frame_count, sink_frames, conv_pushed,
      conv_pending, conv_state, stop_calls, started, after_stop_frames,
      last_result, stop_err, stop_logged, init_failed, joins>>

portalVars ==
    <<pw_handle, pw_task, sd_queue, sd_tx, sd_rx, fr_queue, fr_open,
      pw_produced, pw_converted, pw_seen>>

\* the variables of the other components, per component
genVars ==
    <<gen_svc, gen_pc, gen_pipe, kill_tx, kill_queue, gen_pushed, gen_last>>

\* the variables of the other components, per component
createVars ==
    <<cr_in_id, cr_devs, cr_pc, cr_result, cr_in_dev, cr_err, cr_format,
      cr_in_stream, cr_out_stream, cr_worker>>

\* the variables of the other components, per component
pureVars == <<pf_fn, pf_in, pf_out>>

loopVars ==
    <<input_device_id, ml_pc, current_id, last_id, main_session,
      live_sessions, attempts>>

extVars == <<portalVars, genVars, createVars, pureVars, loopVars>>
notAudio == <<capVars, extVars>>
notCap == <<audioVars, extVars>>
notPortal ==
    <<audioVars, capVars, genVars, createVars, pureVars, loopVars>>
notGen ==
    <<audioVars, capVars, portalVars, createVars, pureVars, loopVars>>
notCreate ==
    <<audioVars, capVars, portalVars, genVars, pureVars, loopVars>>
notLoop == <<audioVars, capVars, portalVars, genVars, createVars, pureVars>>
notPure ==
    <<audioVars, capVars, portalVars, genVars, createVars, loopVars>>

vars == <<audioVars, capVars, extVars>>

----------------------------------------------------------------------------
(* Helpers *)

Zeros == [i \in 1..FRAME_SIZE |-> 0]

\* the frames a processing stage is taken to produce: a silent one, a loud
\* one, and one that mixes zero and non-zero samples
Frames ==
    {Zeros, [i \in 1..FRAME_SIZE |-> 1], [i \in 1..FRAME_SIZE |-> IF i = 1 THEN 1 ELSE 0]}

\* the first n elements of s
Take(s, n) == SubSeq(s, 1, n)

\* s without its first n elements
Drop(s, n) == SubSeq(s, n + 1, Len(s))

\* the numbers a+1 .. a+n, in order
Fresh(a, n) == [i \in 1..n |-> a + i]

RECURSIVE Flatten(_)
Flatten(ss) == IF ss = <<>> THEN <<>> ELSE Head(ss) \o Flatten(Tail(ss))

\* the blocks a resampler is taken to produce: up to n samples of one value
Blocks(n) == {[i \in 1..k |-> v] : k \in 0..n, v \in SampleVals}

----------------------------------------------------------------------------
(* The ring buffer (ringbuf::HeapRb, split into producer and consumer) *)

\* Observer::occupied_len
occupied_len(ring) == Len(ring)

RingIsFull(ring) == Len(ring) >= RING_CAPACITY

\* a push that overwrites the oldest sample of a full ring
try_push_overwrite(ring, s) ==
    IF RingIsFull(ring)
        THEN [ok |-> TRUE, ring |-> Append(Tail(ring), s)]
        ELSE [ok |-> TRUE, ring |-> Append(ring, s)]

\* Producer::try_push: Err(elem) on a full ring, the ring unchanged
try_push(ring, s) ==
    IF RingIsFull(ring)
        THEN [ok |-> FALSE, ring |-> ring]
        ELSE [ok |-> TRUE, ring |-> Append(ring, s)]

\* a pop that takes the newest sample
try_pop_newest(ring) ==
    IF ring = <<>>
        THEN [ok |-> FALSE, ring |-> ring, val |-> 0]
        ELSE [ok |-> TRUE, ring |-> SubSeq(ring, 1, Len(ring) - 1), val |-> ring[Len(ring)]]

\* Consumer::try_pop: None on an empty ring, the ring unchanged
try_pop(ring) ==
    IF ring = <<>>
        THEN [ok |-> FALSE, ring |-> ring, val |-> 0]
        ELSE [ok |-> TRUE, ring |-> Tail(ring), val |-> Head(ring)]

----------------------------------------------------------------------------
(* The input listener callback *)

\* a callback that does not compare the released key with the target key
ListenerNewTx_AnyRelease(enabled, ev, cur) ==
    IF ~enabled THEN TRUE
    ELSE IF ev.type = "KeyPress" /\ ev.key = PttKey THEN TRUE
    ELSE IF ev.type = "KeyRelease" THEN FALSE
    ELSE cur

\* the value the callback leaves in is_transmitting
ListenerNewTx(enabled, ev, cur) ==
    IF ~enabled THEN TRUE
    ELSE IF ev.type = "KeyPress" /\ ev.key = PttKey THEN TRUE
    ELSE IF ev.type = "KeyRelease" /\ ev.key = PttKey THEN FALSE
    ELSE cur

IsTargetEvt(ev) == ev.type \in {"KeyPress", "KeyRelease"} /\ ev.key = PttKey

----------------------------------------------------------------------------
(* The audio session: initial state *)

NoFrame == <<>>

InitAudio ==
    /\ session_live = TRUE
    /\ is_transmitting \in BOOLEAN
    /\ ptt_enabled \in BOOLEAN
    /\ ring_in = <<>>
    /\ ring_out = <<>>
    /\ dsp_pc = "init"
    /\ chunk = <<>>
    /\ dsp_buf = <<>>
    /\ frame = NoFrame
    /\ clean = NoFrame
    /\ is_tx = FALSE
    /\ output_frame = NoFrame
    /\ render_in = NoFrame
    /\ res_o = <<>>
    /\ cap_count = 0
    /\ res_count = 0
    /\ out_count = 0
    /\ pushed_in = <<>>
    /\ popped_in = <<>>
    /\ pushed_out = <<>>
    /\ popped_out = <<>>
    /\ extracted = <<>>
    /\ placed = <<>>
    /\ tx_changed = FALSE
    /\ last_target_evt = "none"
    /\ tx_base = is_transmitting
    /\ proc_err = FALSE

dspLocals == <<chunk, dsp_buf, frame, clean, is_tx, output_frame, render_in, res_o>>

pttVars == <<is_transmitting, ptt_enabled, tx_changed, last_target_evt, tx_base>>

inVars == <<ring_in, cap_count, pushed_in, popped_in>>

outVars == <<ring_out, out_count, pushed_out, popped_out, placed>>

----------------------------------------------------------------------------
(* The listener thread and the settings *)

\* one input event delivered to the rdev callback
InputCallback(ev) ==
    /\ is_transmitting' = ListenerNewTx(ptt_enabled, ev, is_transmitting)
    /\ tx_changed' = (tx_changed \/ is_transmitting' # is_transmitting)
    /\ IF ~ptt_enabled
          THEN last_target_evt' = "none" /\ tx_base' = is_transmitting'
          ELSE /\ last_target_evt' =
                    IF IsTargetEvt(ev)
                        THEN (IF ev.type = "KeyPress" THEN "down" ELSE "up")
                        ELSE last_target_evt
               /\ tx_base' = tx_base
    /\ UNCHANGED <<session_live, ptt_enabled, dsp_pc, dspLocals, res_count,
                   extracted, proc_err, inVars, outVars>>

\* the owner of the settings edits ptt_enabled through the shared Mutex
SetPttEnabled(b) ==
    /\ b # ptt_enabled
    /\ ptt_enabled' = b
    /\ UNCHANGED <<session_live, is_transmitting, tx_changed, last_target_evt,
                   tx_base, dsp_pc, dspLocals, res_count, extracted, proc_err, inVars,
                   outVars>>

----------------------------------------------------------------------------
(* The stream callbacks and the session handle *)

\* one iteration of the capture callback's loop over the input block
CaptureCallback ==
    /\ session_live
    /\ cap_count < MaxCaptured
    /\ LET r == try_push(ring_in, cap_count + 1) IN
         /\ ring_in' = r.ring
         /\ pushed_in' = IF r.ok THEN Append(pushed_in, cap_count + 1) ELSE pushed_in
    /\ cap_count' = cap_count + 1
    /\ UNCHANGED <<session_live, pttVars, dsp_pc, dspLocals, res_count,
                   extracted, proc_err, popped_in, outVars>>

\* one iteration of the playback callback's loop over the output block
PlaybackCallback ==
    /\ session_live
    /\ LET r == try_pop(ring_out) IN
         /\ ring_out' = r.ring
         /\ popped_out' = IF r.ok THEN Append(popped_out, r.val) ELSE popped_out
    /\ UNCHANGED <<session_live, pttVars, dsp_pc, dspLocals, res_count,
                   extracted, proc_err, inVars, out_count, pushed_out, placed>>

\* the AudioSession is dropped: both streams stop, the worker thread is detached
ReleaseSession ==
    /\ session_live
    /\ session_live' = FALSE
    /\ UNCHANGED <<pttVars, dsp_pc, dspLocals, res_count, extracted, proc_err, inVars,
                   outVars>>

----------------------------------------------------------------------------
(* The DSP worker thread *)

\* Resampler::input_frames_next of a SincFixedIn built with chunk size 480
input_frames_next == FRAME_SIZE

\* a load that reuses the value read for the previous frame
LoadTx_Stale == is_tx

\* state.is_transmitting.load(Ordering::Relaxed)
LoadTx == is_transmitting

\* a gate that silences only the first sample
Gate_FirstSampleOnly(tx, cl) ==
    IF tx THEN cl ELSE [i \in 1..FRAME_SIZE |-> IF i = 1 THEN 0 ELSE cl[i]]

\* step 3, the PTT gate: the denoised frame, or silence
Gate(tx, cl) == IF tx THEN cl ELSE Zeros

\* a render feed taken from a fresh silent buffer
RenderCopy_Silent(of) == Zeros

\* step 4: the copy of the gated frame that is fed to the render input
RenderCopy(of) == of

\* a drain that empties the whole scratch buffer
DrainFrame_Clear(buf) == [frame |-> Take(buf, FRAME_SIZE), rest |-> <<>>]

\* dsp_buf.drain(0..480): the frame drained and what stays in the buffer
DrainFrame(buf) == [frame |-> Take(buf, FRAME_SIZE), rest |-> Drop(buf, FRAME_SIZE)]

dspOther == <<session_live, pttVars>>

\* thread start: DenoiseState, Processor and the two resamplers are built,
\* each `unwrap` panicking the thread on failure
DspInit ==
    /\ dsp_pc = "init"
    /\ \E ok \in BOOLEAN : dsp_pc' = IF ok THEN "loop" ELSE "panicked"
    /\ UNCHANGED <<dspOther, dspLocals, res_count, extracted, proc_err, inVars, outVars>>

\* a loop head that starts a chunk as soon as anything is queued
DspLoop_AnyQueued ==
    /\ dsp_pc = "loop"
    /\ IF occupied_len(ring_in) > 0
          THEN dsp_pc' = "pop" /\ chunk' = <<>>
          ELSE dsp_pc' = "sleep" /\ chunk' = chunk
    /\ UNCHANGED <<dspOther, dsp_buf, frame, clean, is_tx, output_frame,
                   render_in, res_o, res_count, extracted, proc_err, inVars, outVars>>

\* head of the outer loop: is a full input chunk queued?
DspLoop ==
    /\ dsp_pc = "loop"
    /\ IF occupied_len(ring_in) >= input_frames_next
          THEN dsp_pc' = "pop" /\ chunk' = <<>>
          ELSE dsp_pc' = "sleep" /\ chunk' = chunk
    /\ UNCHANGED <<dspOther, dsp_buf, frame, clean, is_tx, output_frame,
                   render_in, res_o, res_count, extracted, proc_err, inVars, outVars>>

\* one `cons_in.try_pop().unwrap()` of the chunk fill
DspPop ==
    /\ dsp_pc = "pop"
    /\ LET r == try_pop(ring_in) IN
         IF r.ok
           THEN /\ ring_in' = r.ring
                /\ popped_in' = Append(popped_in, r.val)
                /\ chunk' = Append(chunk, r.val)
                /\ dsp_pc' = IF Len(chunk') = input_frames_next
                                THEN "resample" ELSE "pop"
           ELSE /\ dsp_pc' = "panicked"
                /\ UNCHANGED <<ring_in, popped_in, chunk>>
    /\ UNCHANGED <<dspOther, dsp_buf, frame, clean, is_tx, output_frame,
                   render_in, res_o, res_count, extracted, proc_err, cap_count, pushed_in,
                   outVars>>

\* res_in.process: Ok with some number of resampled samples (numbered in
\* order of production), or Err
DspResample ==
    /\ dsp_pc = "resample"
    /\ \/ \E n \in 0..MaxResOut :
             /\ dsp_buf' = dsp_buf \o Fresh(res_count, n)
             /\ res_count' = res_count + n
             /\ dsp_pc' = "while"
       \/ /\ dsp_pc' = "sleep"
          /\ UNCHANGED <<dsp_buf, res_count>>
    /\ chunk' = <<>>
    /\ UNCHANGED <<dspOther, frame, clean, is_tx, output_frame, render_in,
                   res_o, extracted, proc_err, inVars, outVars>>

\* head of the inner loop; steps 1 and 2 on the drained frame: the primary
\* processor, then the denoiser writing a fresh buffer
DspWhile ==
    /\ dsp_pc = "while"
    /\ IF Len(dsp_buf) >= FRAME_SIZE
          THEN /\ frame' = DrainFrame(dsp_buf).frame
               /\ dsp_buf' = DrainFrame(dsp_buf).rest
               /\ extracted' = Append(extracted, frame')
               /\ \E err \in BOOLEAN : proc_err' = err
               /\ clean' \in Frames
               /\ dsp_pc' = "gate"
          ELSE /\ dsp_pc' = "sleep"
               /\ UNCHANGED <<frame, dsp_buf, extracted, clean, proc_err>>
    /\ UNCHANGED <<dspOther, chunk, is_tx, output_frame, render_in, res_o,
                   res_count, inVars, outVars>>

\* steps 3 and 4: load is_transmitting, gate, feed the render input
DspGate ==
    /\ dsp_pc = "gate"
    /\ is_tx' = LoadTx
    /\ output_frame' = Gate(is_tx', clean)
    /\ render_in' = RenderCopy(output_frame')
    /\ tx_changed' = FALSE
    /\ proc_err' = FALSE
    /\ dsp_pc' = "resample_out"
    /\ UNCHANGED <<session_live, is_transmitting, ptt_enabled, last_target_evt,
                   tx_base, chunk, dsp_buf, frame, clean, res_o, res_count,
                   extracted, inVars, outVars>>

\* step 5, res_out.process on the gated frame: Ok with some number of
\* output samples, or Err
DspResampleOut ==
    /\ dsp_pc = "resample_out"
    /\ placed' = <<>>
    /\ \/ \E r \in Blocks(MaxResOut) :
             /\ res_o' = r
             /\ dsp_pc' = IF r = <<>> THEN "while" ELSE "push"
       \/ /\ res_o' = <<>>
          /\ dsp_pc' = "while"
    /\ IF dsp_pc' = "while"
          THEN /\ frame' = NoFrame /\ clean' = NoFrame
               /\ output_frame' = NoFrame /\ render_in' = NoFrame
          ELSE UNCHANGED <<frame, clean, output_frame, render_in>>
    /\ UNCHANGED <<dspOther, chunk, dsp_buf, is_tx, res_count, extracted, proc_err,
                   inVars, ring_out, out_count, pushed_out, popped_out>>

\* one `prod_out.try_push(s)` of the output loop
DspPush ==
    /\ dsp_pc = "push"
    /\ LET r == try_push(ring_out, out_count + 1) IN
         /\ ring_out' = r.ring
         /\ pushed_out' = IF r.ok THEN Append(pushed_out, out_count + 1) ELSE pushed_out
         /\ placed' = IF r.ok THEN Append(placed, Head(res_o)) ELSE placed
    /\ out_count' = out_count + 1
    /\ res_o' = Tail(res_o)
    /\ IF res_o' = <<>>
          THEN /\ dsp_pc' = "while"
               /\ frame' = NoFrame /\ clean' = NoFrame
               /\ output_frame' = NoFrame /\ render_in' = NoFrame
          ELSE /\ dsp_pc' = "push"
               /\ UNCHANGED <<frame, clean, output_frame, render_in>>
    /\ UNCHANGED <<dspOther, chunk, dsp_buf, is_tx, res_count, extracted, proc_err,
                   inVars, popped_out>>

\* thread::sleep(1 ms), then the next outer iteration
DspSleep ==
    /\ dsp_pc = "sleep"
    /\ dsp_pc' = "loop"
    /\ UNCHANGED <<dspOther, dspLocals, res_count, extracted, proc_err, inVars, outVars>>

DspWorker ==
    \/ DspInit
    \/ DspLoop
    \/ DspPop
    \/ DspResample
    \/ DspWhile
    \/ DspGate
    \/ DspResampleOut
    \/ DspPush
    \/ DspSleep

----------------------------------------------------------------------------
(* The capture handle: placeholder initial state *)

InitCapIdle ==
    /\ variant = "cpu"
    /\ running = FALSE
    /\ handle = "none"
    /\ cap_pc = "none"
    /\ frame_count = 0
    /\ sink_frames = 0
    /\ conv_pushed = 0
    /\ conv_pending = 0
    /\ conv_state = "none"
    /\ stop_calls = 0
    /\ started = FALSE
    /\ after_stop_frames = 0
    /\ last_result = "none"
    /\ stop_err = FALSE
    /\ stop_logged = FALSE
    /\ init_failed = FALSE
    /\ joins = 0

\* the portal capturer: placeholder initial state
InitPortalIdle ==
    /\ pw_handle = "none"
    /\ pw_task = "none"
    /\ sd_queue = 0
    /\ sd_tx = FALSE
    /\ sd_rx = FALSE
    /\ fr_queue = 0
    /\ fr_open = FALSE
    /\ pw_produced = 0
    /\ pw_converted = 0
    /\ pw_seen = "none"

\* the generic capturer: placeholder initial state
InitGenIdle ==
    /\ gen_svc = "none"
    /\ gen_pc = "none"
    /\ gen_pipe = "none"
    /\ kill_tx = FALSE
    /\ kill_queue = 0
    /\ gen_pushed = 0
    /\ gen_last = "none"

\* AudioSession::create: placeholder initial state, a call that has returned
InitCreateIdle ==
    /\ cr_in_id = <<"default">>
    /\ cr_devs = <<>>
    /\ cr_pc = "returned"
    /\ cr_result = "ok"
    /\ cr_in_dev = <<"default">>
    /\ cr_err = "none"
    /\ cr_format = "F32"
    /\ cr_in_stream = "playing"
    /\ cr_out_stream = "playing"
    /\ cr_worker = "init_proc"

\* the session manager loop: placeholder initial state
InitLoopIdle ==
    /\ input_device_id = "default"
    /\ ml_pc = "none"
    /\ current_id = ""
    /\ last_id = ""
    /\ main_session = <<>>
    /\ live_sessions = 0
    /\ attempts = <<>>

\* no function call under study
InitPureIdle ==
    /\ pf_fn = "none"
    /\ pf_in = <<>>
    /\ pf_out = <<>>

InitExtIdle ==
    InitPortalIdle /\ InitGenIdle /\ InitCreateIdle /\ InitPureIdle /\ InitLoopIdle

Init == InitAudio /\ InitCapIdle /\ InitExtIdle

Next ==
    \/ (\E ev \in Events : InputCallback(ev)) /\ UNCHANGED notAudio
    \/ (\E b \in BOOLEAN : SetPttEnabled(b)) /\ UNCHANGED notAudio
    \/ CaptureCallback /\ UNCHANGED notAudio
    \/ PlaybackCallback /\ UNCHANGED notAudio
    \/ ReleaseSession /\ UNCHANGED notAudio
    \/ DspInit /\ UNCHANGED notAudio
    \/ DspLoop /\ UNCHANGED notAudio
    \/ DspPop /\ UNCHANGED notAudio
    \/ DspResample /\ UNCHANGED notAudio
    \/ DspWhile /\ UNCHANGED notAudio
    \/ DspGate /\ UNCHANGED notAudio
    \/ DspResampleOut /\ UNCHANGED notAudio
    \/ DspPush /\ UNCHANGED notAudio
    \/ DspSleep /\ UNCHANGED notAudio

Spec == Init /\ [][Next]_vars

----------------------------------------------------------------------------
(* Properties of the audio session (Spec) *)

\* the worker holds a gated frame that it has not finished pushing
AfterGate == dsp_pc \in {"resample_out", "push"}

\* the worker finishes pushing the current frame's output samples
EmitStep == dsp_pc = "push" /\ dsp_pc' = "while"

\* C1: a frame gated with is_transmitting read false is all zeros, on the
\* output path and at the render input; gated with it read true it is the
\* denoised frame unchanged; never a mix of the two.
C1_GateAllOrNothing ==
    AfterGate =>
        /\ Len(output_frame) = FRAME_SIZE
        /\ IF is_tx
              THEN output_frame = clean /\ render_in = clean
              ELSE output_frame = Zeros /\ render_in = Zeros

C1_Witness ==
    /\ dsp_pc = "push"
    /\ ~is_tx
    /\ clean # Zeros
    /\ output_frame = Zeros

\* C2 (as stated): every frame reflects the value is_transmitting has when the
\* frame is emitted, i.e. the first frame emitted after a transition already
\* reflects the new state.
C2_EmittedReflectsCurrent ==
    [][EmitStep => output_frame = Gate(is_transmitting, clean)]_vars

\* C2 (amended): every frame reflects the value is_transmitting had at the
\* frame's gate load; a frame gated after the last transition reflects the
\* new state.
C2_GatedReflectsLoad ==
    (AfterGate /\ ~tx_changed) => output_frame = Gate(is_transmitting, clean)

C2_Witness ==
    /\ dsp_pc = "push"
    /\ ~tx_changed
    /\ tx_base = FALSE
    /\ last_target_evt = "down"
    /\ output_frame # Zeros

\* C3: with PTT enabled, is_transmitting equals "the last target-key event
\* was a key-down", or the value it had before the events if there was no
\* target-key event; other keys and non-key events do not change it.
C3_TracksTargetKey ==
    is_transmitting =
        CASE last_target_evt = "down" -> TRUE
          [] last_target_evt = "up" -> FALSE
          [] OTHER -> tx_base

C3_Witness ==
    /\ ptt_enabled
    /\ last_target_evt = "up"
    /\ tx_base = TRUE
    /\ ~is_transmitting

\* C4: whenever ptt_enabled is false, is_transmitting is true at the gate
\* load of the worker.
C4_DisabledForcesTransmit ==
    (dsp_pc = "gate" /\ ~ptt_enabled) => is_transmitting

\* C5: every frame handled has FRAME_SIZE samples; at the end of an outer
\* iteration the scratch buffer holds fewer than FRAME_SIZE samples; the
\* frames drained so far followed by the scratch buffer are the resampled
\* stream in order, and the number of frames is the floor of its length
\* over FRAME_SIZE.
C5_Framing ==
    /\ \A i \in 1..Len(extracted) : Len(extracted[i]) = FRAME_SIZE
    /\ dsp_pc = "gate" => Len(frame) = FRAME_SIZE /\ Len(clean) = FRAME_SIZE
    /\ AfterGate => Len(output_frame) = FRAME_SIZE /\ Len(render_in) = FRAME_SIZE
    /\ Flatten(extracted) \o dsp_buf = Fresh(0, res_count)
    /\ dsp_pc = "sleep" =>
          /\ Len(dsp_buf) < FRAME_SIZE
          /\ Len(extracted) = res_count \div FRAME_SIZE

C5_Witness ==
    /\ dsp_pc = "sleep"
    /\ Len(extracted) >= 1
    /\ dsp_buf # <<>>
    /\ res_count > FRAME_SIZE

\* C6: neither ring ever holds more than RING_CAPACITY samples; a push on a
\* full ring changes nothing and the sample is not queued; a pop on an empty
\* ring changes nothing; a push or pop is never held up by the ring's state.
C6_RingBounded ==
    /\ [](Len(ring_in) <= RING_CAPACITY /\ Len(ring_out) <= RING_CAPACITY)
    /\ [][(cap_count' = cap_count + 1 /\ RingIsFull(ring_in))
            => (ring_in' = ring_in /\ pushed_in' = pushed_in)]_vars
    /\ [][(out_count' = out_count + 1 /\ RingIsFull(ring_out))
            => (ring_out' = ring_out /\ pushed_out' = pushed_out)]_vars
    /\ [][(PlaybackCallback /\ ring_out = <<>>)
            => (ring_out' = ring_out /\ popped_out' = popped_out)]_vars
    /\ []((session_live /\ cap_count < MaxCaptured) => ENABLED CaptureCallback)
    /\ [](session_live => ENABLED PlaybackCallback)
    /\ [](dsp_pc = "push" => ENABLED DspPush)

C6_Witness ==
    /\ Len(ring_in) = RING_CAPACITY
    /\ Len(pushed_in) < cap_count
    /\ ring_out = <<>>

\* C7: on each ring the samples popped so far, followed by the samples still
\* queued, are exactly the samples accepted, in push order and without
\* duplicates; the worker's chunk is the tail of what it popped.
C7_FifoOrder ==
    /\ pushed_in = popped_in \o ring_in
    /\ pushed_out = popped_out \o ring_out
    /\ \A i \in 1..(Len(pushed_in) - 1) : pushed_in[i] < pushed_in[i + 1]
    /\ \A i \in 1..(Len(pushed_out) - 1) : pushed_out[i] < pushed_out[i + 1]
    /\ Len(chunk) <= Len(popped_in)
    /\ chunk = SubSeq(popped_in, Len(popped_in) - Len(chunk) + 1, Len(popped_in))

C7_Witness ==
    /\ Len(popped_in) > FRAME_SIZE
    /\ Len(popped_out) >= 2
    /\ Len(pushed_out) < out_count

\* C8 (as stated): what was placed in the output ring for a frame is
\* identical to what was fed to the render input for that frame.
C8_RenderEqualsPlaced ==
    [][EmitStep => placed' = render_in]_vars

\* C8 (amended): the frame fed to the render input is identical to the gated
\* frame handed to the output resampler for the same frame.
C8_RenderEqualsGated ==
    AfterGate => render_in = output_frame /\ Len(render_in) = FRAME_SIZE

C8_Witness ==
    /\ dsp_pc = "push"
    /\ output_frame # Zeros
    /\ placed # <<>>
    /\ placed # render_in

\* C9: once the session is released, the worker's step at the boundary of
\* its outer iteration is to leave the loop.
C9_WorkerExitsAfterRelease ==
    [][(~session_live /\ dsp_pc = "loop" /\ dsp_pc' # dsp_pc) => dsp_pc' = "exited"]_vars

\* C18: when process_capture_frame has failed on a frame, the frame that
\* leaves the gate for the output resampler is all zeros.
C18_FailedFrameIsZeroed ==
    [][(dsp_pc = "gate" /\ proc_err /\ dsp_pc' # dsp_pc) => output_frame' = Zeros]_vars

----------------------------------------------------------------------------
(* The NVFBC capture handles: NvfbcScreenShare ("cpu"), NvfbcGpuCapture      *)
(* ("gpu") and NvfbcLowPowerCapture ("lowpower")                             *)

Variants == {"cpu", "gpu", "lowpower"}

InitCapture ==
    /\ variant \in Variants
    /\ running = FALSE
    /\ handle = "none"
    /\ cap_pc = "none"
    /\ frame_count = 0
    /\ sink_frames = 0
    /\ conv_pushed = 0
    /\ conv_pending = 0
    /\ conv_state = "none"
    /\ stop_calls = 0
    /\ started = FALSE
    /\ after_stop_frames = 0
    /\ last_result = "none"
    /\ stop_err = FALSE
    /\ stop_logged = FALSE
    /\ init_failed = FALSE
    /\ joins = 0

workerVars ==
    <<cap_pc, frame_count, sink_frames, conv_pushed, conv_pending, conv_state,
      stop_calls, started, after_stop_frames, last_result, stop_err,
      stop_logged, init_failed>>

\* what the worker records about its own outcomes
workerLog == <<last_result, stop_err, stop_logged, init_failed>>

\* the first position of the worker thread spawned by new()
FirstPc(v) == IF v = "gpu" THEN "gst_init" ELSE "create"

\* new(): the availability pre-check of the cpu and gpu variants (the
\* low-power variant has none), then the flag is created true and the worker
\* thread is spawned
CapNew ==
    /\ handle = "none"
    /\ \E available \in BOOLEAN :
         IF variant \in {"cpu", "gpu"} /\ ~available
           THEN /\ handle' = "failed"
                /\ UNCHANGED <<running, cap_pc>>
           ELSE /\ handle' = "live"
                /\ running' = TRUE
                /\ cap_pc' = FirstPc(variant)
    /\ UNCHANGED <<variant, frame_count, sink_frames, conv_pushed, conv_pending,
                   conv_state, stop_calls, started, after_stop_frames,
                   workerLog, joins>>

\* shutdown(), first step: running.store(false)
CapShutdown ==
    /\ handle = "live"
    /\ running' = FALSE
    /\ handle' = "joining"
    /\ UNCHANGED <<variant, workerVars, joins>>

\* a join that returns without waiting for the thread to end
CapJoin_NoWait ==
    /\ handle = "joining"
    /\ handle' = "joined"
    /\ joins' = joins + 1
    /\ UNCHANGED <<variant, running, workerVars>>

\* shutdown(), second step: handle.take() and join(), which returns once the
\* thread has ended
CapJoin ==
    /\ handle = "joining"
    /\ cap_pc = "done"
    /\ handle' = "joined"
    /\ joins' = joins + 1
    /\ UNCHANGED <<variant, running, workerVars>>

\* a Drop that would wait for the worker
CapDrop_Blocking ==
    /\ handle = "live"
    /\ cap_pc = "done"
    /\ running' = FALSE
    /\ handle' = "dropped"
    /\ UNCHANGED <<variant, workerVars, joins>>

\* Drop without shutdown(): running.store(false), no join
CapDrop ==
    /\ handle = "live"
    /\ running' = FALSE
    /\ handle' = "dropped"
    /\ UNCHANGED <<variant, workerVars, joins>>

\* shutdown(), last step: `self` goes out of scope, Drop stores false again
\* and shutdown() returns
CapShutdownDrop ==
    /\ handle = "joined"
    /\ running' = FALSE
    /\ handle' = "returned"
    /\ UNCHANGED <<variant, workerVars, joins>>

\* an early return of the gpu worker drops the converter it has built, and
\* GpuColorConverter's Drop sets the pipeline to Null
ConvAfterEarlyReturn(st) == IF st = "playing" THEN "null" ELSE st

\* gpu worker: gstreamer::init()
CapGstInit ==
    /\ cap_pc = "gst_init"
    /\ \E ok \in BOOLEAN :
         /\ cap_pc' = IF ok THEN "converter" ELSE "done"
         /\ init_failed' = ~ok
    /\ UNCHANGED <<variant, running, handle, frame_count, sink_frames,
                   conv_pushed, conv_pending, conv_state, stop_calls, started,
                   after_stop_frames, last_result, stop_err, stop_logged,
                   joins>>

\* gpu worker: GpuColorConverter::new, which sets the pipeline Playing
CapConverter ==
    /\ cap_pc = "converter"
    /\ \E ok \in BOOLEAN :
         /\ init_failed' = ~ok
         /\ IF ok THEN cap_pc' = "create" /\ conv_state' = "playing"
                  ELSE cap_pc' = "done" /\ conv_state' = conv_state
    /\ UNCHANGED <<variant, running, handle, frame_count, sink_frames,
                   conv_pushed, conv_pending, stop_calls, started,
                   after_stop_frames, last_result, stop_err, stop_logged,
                   joins>>

\* SystemCapturer::new() in the worker
CapCreate ==
    /\ cap_pc = "create"
    /\ \E ok \in BOOLEAN :
         /\ init_failed' = ~ok
         /\ IF ok
              THEN /\ cap_pc' = IF variant = "gpu" THEN "start" ELSE "status"
                   /\ UNCHANGED <<conv_state, conv_pending>>
              ELSE /\ cap_pc' = "done"
                   /\ conv_state' = ConvAfterEarlyReturn(conv_state)
                   /\ conv_pending' = 0
    /\ UNCHANGED <<variant, running, handle, frame_count, sink_frames,
                   conv_pushed, stop_calls, started, after_stop_frames,
                   last_result, stop_err, stop_logged, joins>>

\* capturer.status() in the cpu and low-power workers
CapStatus ==
    /\ cap_pc = "status"
    /\ \E ok \in BOOLEAN :
         /\ cap_pc' = IF ok THEN "start" ELSE "done"
         /\ init_failed' = ~ok
    /\ UNCHANGED <<variant, running, handle, frame_count, sink_frames,
                   conv_pushed, conv_pending, conv_state, stop_calls, started,
                   after_stop_frames, last_result, stop_err, stop_logged,
                   joins>>

\* capturer.start(BufferFormat::Bgra, fps)
CapStart ==
    /\ cap_pc = "start"
    /\ \E ok \in BOOLEAN :
         /\ init_failed' = ~ok
         /\ IF ok
              THEN /\ cap_pc' = "loop"
                   /\ started' = TRUE
                   /\ UNCHANGED <<conv_state, conv_pending>>
              ELSE /\ cap_pc' = "done"
                   /\ started' = started
                   /\ conv_state' = ConvAfterEarlyReturn(conv_state)
                   /\ conv_pending' = 0
    /\ UNCHANGED <<variant, running, handle, frame_count, sink_frames,
                   conv_pushed, stop_calls, after_stop_frames, last_result,
                   stop_err, stop_logged, joins>>

\* a loop that never looks at the flag
AfterLoopCheck_Ignore(r) == "next_frame"

\* the position after the loop condition `running.load(Relaxed)` read r
AfterLoopCheck(r) == IF r THEN "next_frame" ELSE "stop"

\* `while running.load(Ordering::Relaxed)`
CapLoop ==
    /\ cap_pc = "loop"
    /\ cap_pc' = AfterLoopCheck(running)
    /\ UNCHANGED <<variant, running, handle, frame_count, sink_frames,
                   conv_pushed, conv_pending, conv_state, stop_calls, started,
                   after_stop_frames, workerLog, joins>>

\* a worker that counts a captured frame without handing it to the sink
CapFrame_CountOnly ==
    /\ cap_pc = "next_frame"
    /\ frame_count < MaxFrames
    /\ cap_pc' = "loop"
    /\ last_result' = "frame"
    /\ frame_count' = frame_count + 1
    /\ UNCHANGED <<variant, running, handle, sink_frames, conv_pushed,
                   conv_pending, conv_state, stop_calls, started,
                   after_stop_frames, stop_err, stop_logged, init_failed,
                   joins>>

\* capturer.next_frame(Blocking, timeout) returning a frame: the cpu and
\* low-power workers convert it and call capture_frame on the sink; the gpu
\* worker pushes it to the converter, which may refuse it
CapFrame ==
    /\ cap_pc = "next_frame"
    /\ frame_count < MaxFrames
    /\ cap_pc' = "loop"
    /\ last_result' = "frame"
    /\ frame_count' = frame_count + 1
    /\ IF variant = "gpu"
          THEN \E pushed \in BOOLEAN :
                 /\ conv_pushed' = IF pushed THEN conv_pushed + 1 ELSE conv_pushed
                 /\ conv_pending' =
                      IF pushed /\ conv_pending < MAX_BUFFERS
                          THEN conv_pending + 1 ELSE conv_pending
                 /\ sink_frames' = sink_frames
                 /\ after_stop_frames' =
                      IF pushed /\ ~running
                          THEN after_stop_frames + 1 ELSE after_stop_frames
          ELSE /\ sink_frames' = sink_frames + 1
               /\ after_stop_frames' =
                    IF ~running THEN after_stop_frames + 1 ELSE after_stop_frames
               /\ UNCHANGED <<conv_pushed, conv_pending>>
    /\ UNCHANGED <<variant, running, handle, conv_state, stop_calls, started,
                   stop_err, stop_logged, init_failed, joins>>

\* the outcomes of next_frame that carry no frame
FrameErrors == {"timeout", "error"}

\* a loop that gives up on an error other than a timeout
AfterFrameErr_Fatal(kind) == IF kind = "timeout" THEN "loop" ELSE "stop"

\* the position after the Err arm of the match on next_frame: the arm at
\* most logs, for a timeout and for any other error alike
AfterFrameErr(kind) == "loop"

\* next_frame returning Err: a timeout or another error
CapNoFrame ==
    /\ cap_pc = "next_frame"
    /\ \E kind \in FrameErrors :
         /\ last_result' = kind
         /\ cap_pc' = AfterFrameErr(kind)
    /\ UNCHANGED <<variant, running, handle, frame_count, sink_frames,
                   conv_pushed, conv_pending, conv_state, stop_calls, started,
                   after_stop_frames, stop_err, stop_logged, init_failed,
                   joins>>

\* whether a failure of capturer.stop() reaches a log: the cpu and low-power
\* workers return it from capture_loop and the thread closure logs it, the
\* gpu worker discards it with `let _ =`
StopFailureLogged(v) == v # "gpu"

\* capturer.stop() after the loop, Ok or Err: the cpu and low-power workers
\* return (with the error, if any), the gpu worker goes on to the converter
CapStop ==
    /\ cap_pc = "stop"
    /\ stop_calls' = stop_calls + 1
    /\ \E ok \in BOOLEAN :
         /\ stop_err' = ~ok
         /\ stop_logged' = (~ok /\ StopFailureLogged(variant))
    /\ cap_pc' = IF variant = "gpu" THEN "conv_shutdown" ELSE "done"
    /\ UNCHANGED <<variant, running, handle, frame_count, sink_frames,
                   conv_pushed, conv_pending, conv_state, started,
                   after_stop_frames, last_result, init_failed, joins>>

\* a teardown that sets the converter to Null before the capturer is stopped
CapConvShutdown_Early ==
    /\ cap_pc \in {"stop", "conv_shutdown"}
    /\ variant = "gpu"
    /\ conv_state' = "null"
    /\ conv_pending' = 0
    /\ cap_pc' = IF cap_pc = "stop" /\ conv_state = "playing" THEN "stop" ELSE "done"
    /\ UNCHANGED <<variant, running, handle, frame_count, sink_frames,
                   conv_pushed, stop_calls, started, after_stop_frames,
                   workerLog, joins>>

\* gpu worker: converter.shutdown() sets the pipeline to Null
CapConvShutdown ==
    /\ cap_pc = "conv_shutdown"
    /\ conv_state' = "null"
    /\ conv_pending' = 0
    /\ cap_pc' = "done"
    /\ UNCHANGED <<variant, running, handle, frame_count, sink_frames,
                   conv_pushed, stop_calls, started, after_stop_frames,
                   workerLog, joins>>

\* the converter's appsink callback: one converted frame is handed to the sink
ConvDeliver ==
    /\ conv_state = "playing"
    /\ conv_pending > 0
    /\ conv_pending' = conv_pending - 1
    /\ sink_frames' = sink_frames + 1
    /\ UNCHANGED <<variant, running, handle, cap_pc, frame_count, conv_pushed,
                   conv_state, stop_calls, started, after_stop_frames,
                   workerLog, joins>>

CapWorker ==
    \/ CapGstInit
    \/ CapConverter
    \/ CapCreate
    \/ CapStatus
    \/ CapStart
    \/ CapLoop
    \/ CapFrame
    \/ CapNoFrame
    \/ CapStop
    \/ CapConvShutdown

InitCap == InitAudio /\ InitCapture /\ InitExtIdle

NextCap ==
    \/ CapNew /\ UNCHANGED notCap
    \/ CapShutdown /\ UNCHANGED notCap
    \/ CapJoin /\ UNCHANGED notCap
    \/ CapShutdownDrop /\ UNCHANGED notCap
    \/ CapDrop /\ UNCHANGED notCap
    \/ CapGstInit /\ UNCHANGED notCap
    \/ CapConverter /\ UNCHANGED notCap
    \/ CapCreate /\ UNCHANGED notCap
    \/ CapStatus /\ UNCHANGED notCap
    \/ CapStart /\ UNCHANGED notCap
    \/ CapLoop /\ UNCHANGED notCap
    \/ CapFrame /\ UNCHANGED notCap
    \/ CapNoFrame /\ UNCHANGED notCap
    \/ CapStop /\ UNCHANGED notCap
    \/ CapConvShutdown /\ UNCHANGED notCap
    \/ ConvDeliver /\ UNCHANGED notCap

\* the threads are scheduled by the OS, next_frame returns within its
\* timeout, join returns once the thread has ended and shutdown() runs on
SpecCap ==
    /\ InitCap
    /\ [][NextCap]_vars
    /\ WF_vars(CapWorker /\ UNCHANGED notCap)
    /\ WF_vars(CapJoin /\ UNCHANGED notCap)
    /\ WF_vars(CapShutdownDrop /\ UNCHANGED notCap)

----------------------------------------------------------------------------
(* Properties of the capture handles (SpecCap) *)

C13_StopBeforeSinkTeardown ==
    /\ [][(started /\ conv_state = "playing" /\ conv_state' = "null")
            => stop_calls = 1]_vars
    /\ [][conv_pushed' # conv_pushed => (conv_state = "playing" /\ conv_state' = "playing")]_vars
    /\ []((handle = "returned" /\ variant = "gpu" /\ started)
            => (stop_calls = 1 /\ conv_state = "null"))

C13_Witness ==
    /\ variant = "gpu"
    /\ handle = "returned"
    /\ conv_state = "null"
    /\ stop_calls = 1
    /\ conv_pushed > 0

\* C14: when capturer.stop() has returned an error and the worker has ended,
\* the failure has been logged and, in the gpu variant, the converter has
\* been shut down.
C14_StopFailureLogged ==
    (stop_err /\ cap_pc = "done")
        => (stop_logged /\ (variant = "gpu" => conv_state = "null"))

\* C20: when an initialization step of the cpu or low-power worker has
\* failed, new() has returned Err: there is no handle for a dead worker.
C20_InitFailureReturnsErr ==
    (variant \in {"cpu", "lowpower"} /\ init_failed) => handle = "failed"

----------------------------------------------------------------------------
(* The portal capturer: PipeWireScreenShare and its frame task *)

\* frames the frame channel holds before the manager has to wait
MaxQueued == 2

\* new(): any of the portal or PipeWire steps may fail; on success the two
\* ends of the shutdown channel exist and, when the manager hands out a frame
\* receiver, the frame task is spawned (otherwise shutdown_rx is dropped)
PwNew ==
    /\ pw_handle = "none"
    /\ \E ok \in BOOLEAN, has_rx \in BOOLEAN :
         IF ~ok
           THEN /\ pw_handle' = "failed"
                /\ UNCHANGED <<pw_task, sd_tx, sd_rx, fr_open>>
           ELSE /\ pw_handle' = "live"
                /\ sd_tx' = TRUE
                /\ sd_rx' = has_rx
                /\ fr_open' = has_rx
                /\ pw_task' = IF has_rx THEN "select" ELSE "none"
    /\ UNCHANGED <<sd_queue, fr_queue, pw_produced, pw_converted, pw_seen>>

\* the PipeWire manager sends one more frame into the frame channel
PwFrameArrives ==
    /\ fr_open
    /\ fr_queue < MaxQueued
    /\ pw_produced < MaxFrames
    /\ fr_queue' = fr_queue + 1
    /\ pw_produced' = pw_produced + 1
    /\ UNCHANGED <<pw_handle, pw_task, sd_queue, sd_tx, sd_rx, fr_open,
                   pw_converted, pw_seen>>

\* the sending side of the frame channel goes away (the stream ends)
PwFrameClose ==
    /\ fr_open
    /\ fr_open' = FALSE
    /\ UNCHANGED <<pw_handle, pw_task, sd_queue, sd_tx, sd_rx, fr_queue,
                   pw_produced, pw_converted, pw_seen>>

\* select!, first branch: `Some(frame) = rx.recv()`, then process_frame and
\* back to the select; when rx.recv() yields None the branch is disabled
PwTaskFrame ==
    /\ pw_task = "select"
    /\ fr_queue > 0
    /\ fr_queue' = fr_queue - 1
    /\ pw_converted' = pw_converted + 1
    /\ UNCHANGED <<pw_handle, pw_task, sd_queue, sd_tx, sd_rx, fr_open,
                   pw_produced, pw_seen>>

\* a second branch that matches a received message only
ShutdownReady_SomeOnly(q, tx) == q > 0

\* select!, second branch: `_ = shutdown_rx.recv()` completes with Some(())
\* when a message is queued and with None when every sender is gone, and
\* the pattern `_` matches both
ShutdownReady(q, tx) == q > 0 \/ ~tx

\* the second branch is taken: log and break
PwTaskShutdown ==
    /\ pw_task = "select"
    /\ ShutdownReady(sd_queue, sd_tx)
    /\ pw_seen' = IF sd_queue > 0 THEN "signal" ELSE "closed"
    /\ sd_queue' = 0
    /\ sd_rx' = FALSE
    /\ pw_task' = "exited"
    /\ UNCHANGED <<pw_handle, sd_tx, fr_queue, fr_open, pw_produced,
                   pw_converted>>

\* shutdown(), first step: `let _ = self.shutdown_tx.send(()).await`; the
\* send fails, and is ignored, when the receiver is gone
PwShutdownSend ==
    /\ pw_handle = "live"
    /\ pw_handle' = "sent"
    /\ sd_queue' = IF sd_rx THEN sd_queue + 1 ELSE sd_queue
    /\ UNCHANGED <<pw_task, sd_tx, sd_rx, fr_queue, fr_open, pw_produced,
                   pw_converted, pw_seen>>

\* shutdown(), second step: manager.shutdown().await, Ok or Err, then `self`
\* is dropped and with it the shutdown sender; whether the manager closes
\* the frame channel is up to the library
PwShutdownManager ==
    /\ pw_handle = "sent"
    /\ \E ok \in BOOLEAN, closes \in BOOLEAN :
         /\ pw_handle' = IF ok THEN "returned" ELSE "returned_err"
         /\ fr_open' = (fr_open /\ ~closes)
    /\ sd_tx' = FALSE
    /\ UNCHANGED <<pw_task, sd_queue, sd_rx, fr_queue, pw_produced,
                   pw_converted, pw_seen>>

\* the handle is dropped without shutdown(): the shutdown sender goes away
PwDrop ==
    /\ pw_handle = "live"
    /\ pw_handle' = "dropped"
    /\ sd_tx' = FALSE
    /\ \E closes \in BOOLEAN : fr_open' = (fr_open /\ ~closes)
    /\ UNCHANGED <<pw_task, sd_queue, sd_rx, fr_queue, pw_produced,
                   pw_converted, pw_seen>>

InitPortal == InitAudio /\ InitCapIdle /\ InitExtIdle

NextPortal ==
    \/ PwNew /\ UNCHANGED notPortal
    \/ PwFrameArrives /\ UNCHANGED notPortal
    \/ PwFrameClose /\ UNCHANGED notPortal
    \/ PwTaskFrame /\ UNCHANGED notPortal
    \/ PwTaskShutdown /\ UNCHANGED notPortal
    \/ PwShutdownSend /\ UNCHANGED notPortal
    \/ PwShutdownManager /\ UNCHANGED notPortal
    \/ PwDrop /\ UNCHANGED notPortal

\* the runtime keeps polling the task, and select! picks among its ready
\* branches at random, so a ready shutdown branch is not passed over for ever
SpecPortal ==
    /\ InitPortal
    /\ [][NextPortal]_vars
    /\ WF_vars(PwTaskShutdown /\ UNCHANGED notPortal)

\* C15: once shutdown() has sent on the shutdown channel, or the handle and
\* with it the sender has been dropped, the frame task leaves its loop,
\* also when the frame channel is closed; it leaves only then, and after it
\* has left no frame is converted.
C15_ShutdownChannelEndsTask ==
    /\ ((pw_handle \in {"sent", "returned", "returned_err", "dropped"}
            /\ pw_task = "select") ~> (pw_task = "exited"))
    /\ [][(pw_task = "select" /\ pw_task' = "exited") => pw_handle # "live"]_vars
    /\ [][pw_task = "exited" => (pw_converted' = pw_converted /\ pw_task' = "exited")]_vars
    /\ []((pw_task = "exited") => (pw_seen \in {"signal", "closed"}))

C15_Witness ==
    /\ pw_task = "exited"
    /\ pw_handle = "dropped"
    /\ pw_seen = "closed"
    /\ ~fr_open
    /\ pw_converted > 0
    /\ fr_queue > 0

----------------------------------------------------------------------------
(* The generic capturer: ScreenShareService and its capture thread *)

\* new() up to the spawn: gst::init, the monitor lookup and the pipeline
\* construction may fail; otherwise the kill channel is created and the
\* capture thread is spawned
GenNew ==
    /\ gen_svc = "none"
    /\ \E ok \in BOOLEAN :
         IF ok
           THEN /\ gen_svc' = "spawned"
                /\ gen_pipe' = "built"
                /\ kill_tx' = TRUE
                /\ gen_pc' = "check"
           ELSE /\ gen_svc' = "failed"
                /\ UNCHANGED <<gen_pipe, kill_tx, gen_pc>>
    /\ UNCHANGED <<kill_queue, gen_pushed, gen_last>>

\* new(), after the spawn: pipeline.set_state(Playing)?; on Err the locals,
\* the kill sender among them, are dropped
GenPlay ==
    /\ gen_svc = "spawned"
    /\ \E ok \in BOOLEAN :
         IF ok
           THEN /\ gen_svc' = "live"
                /\ gen_pipe' = "playing"
                /\ kill_tx' = kill_tx
           ELSE /\ gen_svc' = "failed"
                /\ gen_pipe' = gen_pipe
                /\ kill_tx' = FALSE
    /\ UNCHANGED <<gen_pc, kill_queue, gen_pushed, gen_last>>

\* the service is dropped: its fields, the kill sender among them, go away;
\* nothing is sent on the channel
GenDrop ==
    /\ gen_svc = "live"
    /\ gen_svc' = "dropped"
    /\ kill_tx' = FALSE
    /\ UNCHANGED <<gen_pc, gen_pipe, kill_queue, gen_pushed, gen_last>>

\* `kill_rx.try_recv().is_ok()`: true for a received message only; with the
\* sender gone try_recv returns Err(Disconnected)
KillObserved(q, tx) == q > 0

\* head of the loop: `if kill_rx.try_recv().is_ok() { break; }`
GenCheck ==
    /\ gen_pc = "check"
    /\ IF KillObserved(kill_queue, kill_tx)
          THEN gen_pc' = "stopped" /\ kill_queue' = 0
          ELSE gen_pc' = "capture" /\ kill_queue' = kill_queue
    /\ UNCHANGED <<gen_svc, gen_pipe, kill_tx, gen_pushed, gen_last>>

\* monitor.capture_image(): an image of the expected size is pushed into
\* appsrc (a failed push breaks out of the loop), an image of another size
\* is skipped, an error is printed and followed by a sleep
GenCapture ==
    /\ gen_pc = "capture"
    /\ \E outcome \in {"pushed", "pushfail", "badsize", "err"} :
         /\ outcome = "pushed" => gen_pushed < MaxFrames
         /\ gen_last' = outcome
         /\ gen_pushed' = IF outcome = "pushed" THEN gen_pushed + 1 ELSE gen_pushed
         /\ gen_pc' = IF outcome = "pushfail" THEN "stopped" ELSE "pace"
    /\ UNCHANGED <<gen_svc, gen_pipe, kill_tx, kill_queue>>

\* frame pacing: sleep for the rest of the interval, then the next iteration
GenPace ==
    /\ gen_pc = "pace"
    /\ gen_pc' = "check"
    /\ UNCHANGED <<gen_svc, gen_pipe, kill_tx, kill_queue, gen_pushed, gen_last>>

InitGeneric == InitAudio /\ InitCapIdle /\ InitExtIdle

NextGeneric ==
    \/ GenNew /\ UNCHANGED notGen
    \/ GenPlay /\ UNCHANGED notGen
    \/ GenDrop /\ UNCHANGED notGen
    \/ GenCheck /\ UNCHANGED notGen
    \/ GenCapture /\ UNCHANGED notGen
    \/ GenPace /\ UNCHANGED notGen

SpecGeneric == InitGeneric /\ [][NextGeneric]_vars

\* C16: once the service has been dropped and its kill sender released, the
\* capture thread's step at the head of its loop is to leave the loop.
C16_WorkerObservesRelease ==
    [][(gen_pc = "check" /\ ~kill_tx /\ gen_pc' # gen_pc) => gen_pc' = "stopped"]_vars

----------------------------------------------------------------------------
(* One call of AudioSession::create *)

\* device names are sequences of tokens, so that split and contains can be
\* computed on them
DefaultId == <<"default">>
DevSys == <<"sysdefault:", "CARD=", "A">>
DevPlug == <<"plughw:", "CARD=", "A", ",", "DEV=0">>
DevPulse == <<"pulse">>
IdOther == <<"plughw:", "CARD=", "B", ",", "DEV=0">>

InIds == {DefaultId, DevSys, DevPlug, IdOther}
DevLists == {<<>>, <<DevPulse>>, <<DevSys, DevPulse>>, <<DevPlug, DevSys>>}
Formats == {"F32", "I16", "U16"}

\* positions of token t in s
Positions(s, t) == {i \in 1..Len(s) : s[i] = t}

\* the smallest element of a non-empty set of numbers
MinOf(S) == CHOOSE x \in S : \A y \in S : x <= y

\* s up to the first token t, all of s when t does not occur
UpTo(s, t) ==
    IF Positions(s, t) = {} THEN s ELSE SubSeq(s, 1, MinOf(Positions(s, t)) - 1)

\* `in_id.split("CARD=").nth(1)` is Some exactly when "CARD=" occurs
HasCard(id) == Positions(id, "CARD=") # {}

\* `in_id.split("CARD=").nth(1).and_then(|s| s.split(',').next())`
CardName(id) ==
    LET rest == SubSeq(id, MinOf(Positions(id, "CARD=")) + 1, Len(id))
    IN  UpTo(UpTo(rest, "CARD="), ",")

\* `name.contains(card_name)`
Contains(name, part) ==
    \E i \in 1..(Len(name) - Len(part) + 1) :
        SubSeq(name, i, i + Len(part) - 1) = part

\* `devices.find(..)`: the first device of the list that matches, or <<>>
FindExact(devs, id) ==
    LET I == {i \in 1..Len(devs) : devs[i] = id}
    IN  IF I = {} THEN <<>> ELSE devs[MinOf(I)]

FindByCard(devs, card) ==
    LET I == {i \in 1..Len(devs) : Contains(devs[i], card)}
    IN  IF I = {} THEN <<>> ELSE devs[MinOf(I)]

\* the card match tried before the exact match
ResolveNamed_CardFirst(devs, id) ==
    IF HasCard(id) /\ FindByCard(devs, CardName(id)) # <<>>
      THEN FindByCard(devs, CardName(id))
    ELSE FindExact(devs, id)

\* the named-device branch: exact match, then the CARD= fallback
ResolveNamed(devs, id) ==
    IF FindExact(devs, id) # <<>> THEN FindExact(devs, id)
    ELSE IF HasCard(id) THEN FindByCard(devs, CardName(id))
    ELSE <<>>

\* a stream that goes out of scope is stopped and released
DropStream(st) == IF st \in {"built", "playing"} THEN "dropped" ELSE st

InitCreate ==
    /\ cr_in_id \in InIds
    /\ cr_devs \in DevLists
    /\ cr_pc = "in_device"
    /\ cr_result = "none"
    /\ cr_in_dev = <<>>
    /\ cr_err = "none"
    /\ cr_format = "none"
    /\ cr_in_stream = "none"
    /\ cr_out_stream = "none"
    /\ cr_worker = "none"

\* an early `return Err(..)` or `?`: create returns Err and its locals, the
\* streams built so far among them, are dropped
CrFail(err) ==
    /\ cr_pc' = "returned"
    /\ cr_result' = "err"
    /\ cr_err' = err
    /\ cr_in_stream' = DropStream(cr_in_stream)
    /\ cr_out_stream' = DropStream(cr_out_stream)

\* the input device: the host default, or the named device with fallback
CrInDevice ==
    /\ cr_pc = "in_device"
    /\ \E has_default \in BOOLEAN, enum_ok \in BOOLEAN, retry_ok \in BOOLEAN :
         LET retried == FindExact(cr_devs, cr_in_id) = <<>> /\ HasCard(cr_in_id)
             err == IF cr_in_id = DefaultId
                      THEN (IF has_default THEN "none" ELSE "no_mic")
                      ELSE IF ~enum_ok \/ (retried /\ ~retry_ok) THEN "enumerate"
                      ELSE IF ResolveNamed(cr_devs, cr_in_id) = <<>> THEN "not_found"
                      ELSE "none"
             dev == IF cr_in_id = DefaultId THEN DefaultId
                    ELSE ResolveNamed(cr_devs, cr_in_id)
         IN  IF err # "none"
               THEN CrFail(err) /\ UNCHANGED cr_in_dev
               ELSE /\ cr_in_dev' = dev
                    /\ cr_pc' = "out_device"
                    /\ UNCHANGED <<cr_result, cr_err, cr_in_stream, cr_out_stream>>
    /\ UNCHANGED <<cr_in_id, cr_devs, cr_format, cr_worker>>

\* `host.default_output_device().ok_or_else(..)?`
CrOutDevice ==
    /\ cr_pc = "out_device"
    /\ \E has_out \in BOOLEAN :
         IF has_out
           THEN /\ cr_pc' = "configs"
                /\ UNCHANGED <<cr_result, cr_err, cr_in_stream, cr_out_stream>>
           ELSE CrFail("other")
    /\ UNCHANGED <<cr_in_id, cr_devs, cr_in_dev, cr_format, cr_worker>>

\* default_input_config()? and default_output_config()?, and the sample
\* format the input config reports
CrConfigs ==
    /\ cr_pc = "configs"
    /\ \E ok \in BOOLEAN, fmt \in Formats :
         IF ok
           THEN /\ cr_pc' = "in_stream"
                /\ cr_format' = fmt
                /\ UNCHANGED <<cr_result, cr_err, cr_in_stream, cr_out_stream>>
           ELSE CrFail("other") /\ UNCHANGED cr_format
    /\ UNCHANGED <<cr_in_id, cr_devs, cr_in_dev, cr_worker>>

\* the sample formats the match on in_format builds a stream for
SupportedFormats == {"F32", "I16"}

\* build_input_stream for F32 and I16, `Unsupported format` otherwise
CrInStream ==
    /\ cr_pc = "in_stream"
    /\ \E built \in BOOLEAN :
         IF cr_format \in SupportedFormats /\ built
           THEN /\ cr_pc' = "out_stream"
                /\ cr_in_stream' = "built"
                /\ UNCHANGED <<cr_result, cr_err, cr_out_stream>>
           ELSE CrFail("other")
    /\ UNCHANGED <<cr_in_id, cr_devs, cr_in_dev, cr_format, cr_worker>>

\* build_output_stream(..)?
CrOutStream ==
    /\ cr_pc = "out_stream"
    /\ \E built \in BOOLEAN :
         IF built
           THEN /\ cr_pc' = "spawn"
                /\ cr_out_stream' = "built"
                /\ UNCHANGED <<cr_result, cr_err, cr_in_stream>>
           ELSE CrFail("other")
    /\ UNCHANGED <<cr_in_id, cr_devs, cr_in_dev, cr_format, cr_worker>>

\* std::thread::spawn of the DSP thread; the JoinHandle is discarded
CrSpawn ==
    /\ cr_pc = "spawn"
    /\ cr_pc' = "play_in"
    /\ cr_worker' = "init_proc"
    /\ UNCHANGED <<cr_in_id, cr_devs, cr_result, cr_in_dev, cr_err, cr_format,
                   cr_in_stream, cr_out_stream>>

\* `_in_stream.play()?`
CrPlayIn ==
    /\ cr_pc = "play_in"
    /\ \E ok \in BOOLEAN :
         IF ok
           THEN /\ cr_pc' = "play_out"
                /\ cr_in_stream' = "playing"
                /\ UNCHANGED <<cr_result, cr_err, cr_out_stream>>
           ELSE CrFail("other")
    /\ UNCHANGED <<cr_in_id, cr_devs, cr_in_dev, cr_format, cr_worker>>

\* `_out_stream.play()?` and `Ok(Self { _streams })`
CrPlayOut ==
    /\ cr_pc = "play_out"
    /\ \E ok \in BOOLEAN :
         IF ok
           THEN /\ cr_pc' = "returned"
                /\ cr_result' = "ok"
                /\ cr_out_stream' = "playing"
                /\ UNCHANGED <<cr_in_stream, cr_err>>
           ELSE CrFail("other")
    /\ UNCHANGED <<cr_in_id, cr_devs, cr_in_dev, cr_format, cr_worker>>

\* the position of the DSP thread after an initialization step: an Err is
\* unwrapped, which panics the thread
AfterWorkerInit(ok, next) == IF ok THEN next ELSE "panicked"

\* DSP thread: Processor::new(..).unwrap()
CrWorkerProc ==
    /\ cr_worker = "init_proc"
    /\ \E ok \in BOOLEAN : cr_worker' = AfterWorkerInit(ok, "init_res_in")
    /\ UNCHANGED <<cr_in_id, cr_devs, cr_pc, cr_result, cr_in_dev, cr_err, cr_format,
                   cr_in_stream, cr_out_stream>>

\* DSP thread: SincFixedIn::new(48000.0 / in_sr, ..).unwrap()
CrWorkerResIn ==
    /\ cr_worker = "init_res_in"
    /\ \E ok \in BOOLEAN : cr_worker' = AfterWorkerInit(ok, "init_res_out")
    /\ UNCHANGED <<cr_in_id, cr_devs, cr_pc, cr_result, cr_in_dev, cr_err, cr_format,
                   cr_in_stream, cr_out_stream>>

\* DSP thread: SincFixedIn::new(out_sr / 48000.0, ..).unwrap(), then the
\* processing loop, which has no exit
CrWorkerResOut ==
    /\ cr_worker = "init_res_out"
    /\ \E ok \in BOOLEAN : cr_worker' = AfterWorkerInit(ok, "loop")
    /\ UNCHANGED <<cr_in_id, cr_devs, cr_pc, cr_result, cr_in_dev, cr_err, cr_format,
                   cr_in_stream, cr_out_stream>>

InitCreateCall ==
    InitAudio /\ InitCapIdle /\ InitPortalIdle /\ InitGenIdle /\ InitPureIdle
    /\ InitLoopIdle /\ InitCreate

NextCreate ==
    \/ CrInDevice /\ UNCHANGED notCreate
    \/ CrOutDevice /\ UNCHANGED notCreate
    \/ CrConfigs /\ UNCHANGED notCreate
    \/ CrInStream /\ UNCHANGED notCreate
    \/ CrOutStream /\ UNCHANGED notCreate
    \/ CrSpawn /\ UNCHANGED notCreate
    \/ CrPlayIn /\ UNCHANGED notCreate
    \/ CrPlayOut /\ UNCHANGED notCreate
    \/ CrWorkerProc /\ UNCHANGED notCreate
    \/ CrWorkerResIn /\ UNCHANGED notCreate
    \/ CrWorkerResOut /\ UNCHANGED notCreate

SpecCreate == InitCreateCall /\ [][NextCreate]_vars

\* the DSP thread of the call is alive
WorkerAlive == cr_worker \in {"init_proc", "init_res_in", "init_res_out", "loop"}

\* C17: create does not return Ok for a session whose DSP worker failed to
\* initialize: a worker that has panicked in its initialization goes with
\* an Err result.
C17_InitFailureSurfaces ==
    (cr_worker = "panicked" /\ cr_pc = "returned") => cr_result = "err"

\* C19: when create has returned Err, no DSP thread of the call is alive
\* and neither stream of the call is playing.
C19_ErrLeavesNothingRunning ==
    cr_result = "err"
        => (~WorkerAlive /\ cr_in_stream # "playing" /\ cr_out_stream # "playing")

----------------------------------------------------------------------------
(* Colour conversion: bgra_to_i420, bgra_to_i420_scaled and the places that *)
(* take a BGRA buffer in                                                    *)

\* BT.601 coefficients
YUV_Y_R_COEF == 66
YUV_Y_G_COEF == 129
YUV_Y_B_COEF == 25
YUV_U_R_COEF == -38
YUV_U_G_COEF == -74
YUV_U_B_COEF == 112
YUV_V_R_COEF == 112
YUV_V_G_COEF == -94
YUV_V_B_COEF == -18
YUV_ROUNDING == 128
YUV_SHIFT == 8
YUV_Y_OFFSET == 16
YUV_UV_OFFSET == 128

\* BGRA pixel component indices
BGRA_B == 0
BGRA_G == 1
BGRA_R == 2
BYTES_PER_PIXEL == 4

\* 2^n
RECURSIVE Pow2(_)
Pow2(n) == IF n = 0 THEN 1 ELSE 2 * Pow2(n - 1)

\* `x >> n` on a signed integer: the arithmetic shift rounds down
Shr(x, n) == x \div Pow2(n)

\* `x << n`
Shl(x, n) == x * Pow2(n)

\* `v.clamp(0, 255) as u8`
ClampU8(v) == IF v < 0 THEN 0 ELSE IF v > 255 THEN 255 ELSE v

YValue(red, green, blue) ==
    Shr(YUV_Y_R_COEF * red + YUV_Y_G_COEF * green + YUV_Y_B_COEF * blue
            + YUV_ROUNDING, YUV_SHIFT) + YUV_Y_OFFSET

UValue(red, green, blue) ==
    Shr(YUV_U_R_COEF * red + YUV_U_G_COEF * green + YUV_U_B_COEF * blue
            + YUV_ROUNDING, YUV_SHIFT) + YUV_UV_OFFSET

VValue(red, green, blue) ==
    Shr(YUV_V_R_COEF * red + YUV_V_G_COEF * green + YUV_V_B_COEF * blue
            + YUV_ROUNDING, YUV_SHIFT) + YUV_UV_OFFSET

\* element idx (counted from 0) of a byte slice
At(bgra, idx) == bgra[idx + 1]

\* marks a plane sample no write has reached
Unwritten == -1

\* I420Buffer::new(w, h): the lengths of the Y plane and of each chroma
\* plane (chroma stride and height are rounded up)
YLen(w, h) == w * h
UVLen(w, h) == ((w + 1) \div 2) * ((h + 1) \div 2)

\* the largest element of a non-empty set of numbers
MaxOf(S) == CHOOSE x \in S : \A y \in S : x >= y

\* a plane after a run of writes: writes[k] = <<index, value>> in the order
\* they were made, <<Unwritten, 0>> standing for an iteration that wrote
\* nothing; the last write to an index is the one that stays
PlaneAfter(len, writes) ==
    [i \in 0..(len - 1) |->
        LET ks == {k \in DOMAIN writes : writes[k][1] = i}
        IN  IF ks = {} THEN Unwritten ELSE writes[MaxOf(ks)][2]]

\* how many writes went to each index of a plane, and how many outside it
WriteCounts(len, writes) ==
    [i \in 0..(len - 1) |-> Cardinality({k \in DOMAIN writes : writes[k][1] = i})]

WritesOutside(len, writes) ==
    Cardinality({k \in DOMAIN writes :
                    writes[k][1] # Unwritten /\ writes[k][1] \notin 0..(len - 1)})

\* a guard that wants a whole pixel after the index
Skipped_WholePixel(bgra, bgra_idx) == bgra_idx + BYTES_PER_PIXEL >= Len(bgra)

\* the guard `if bgra_idx + BGRA_R >= bgra.len() { continue; }`
Skipped(bgra, bgra_idx) == bgra_idx + BGRA_R >= Len(bgra)

\* sum of f over a finite set of numbers
RECURSIVE SumOver(_, _)
SumOver(S, f) ==
    IF S = {} THEN 0
    ELSE LET x == CHOOSE x \in S : TRUE IN f[x] + SumOver(S \ {x}, f)

\* bgra_to_i420 (nvfbc_capture.rs and pipewire_capture.rs hold the same
\* function): 2x2 blocks, Y per pixel, U and V from the block's sums / 4
bgra_to_i420(bgra, width, height) ==
    LET bw == width \div 2
        bh == height \div 2
        block_y(b) == b \div bw
        block_x(b) == b % bw
        \* the four pixels of block b, in the order dy, dx
        pixel_x(b, p) == block_x(b) * 2 + (p % 2)
        pixel_y(b, p) == block_y(b) * 2 + (p \div 2)
        bgra_idx(b, p) == (pixel_y(b, p) * width + pixel_x(b, p)) * BYTES_PER_PIXEL
        comp(b, p, c) == IF Skipped(bgra, bgra_idx(b, p)) THEN 0
                         ELSE At(bgra, bgra_idx(b, p) + c)
        ywrites ==
            [k \in 1..(bw * bh * 4) |->
                LET b == (k - 1) \div 4
                    p == (k - 1) % 4
                IN  IF Skipped(bgra, bgra_idx(b, p)) THEN <<Unwritten, 0>>
                    ELSE <<pixel_y(b, p) * width + pixel_x(b, p),
                           ClampU8(YValue(comp(b, p, BGRA_R), comp(b, p, BGRA_G),
                                          comp(b, p, BGRA_B)))>>]
        avg(b, c) == SumOver(0..3, [p \in 0..3 |-> comp(b, p, c)]) \div 4
        uvwrites(F(_, _, _)) ==
            [k \in 1..(bw * bh) |->
                LET b == k - 1
                    uv_idx == block_y(b) * bw + block_x(b)
                IN  IF uv_idx < UVLen(width, height)
                      THEN <<uv_idx, ClampU8(F(avg(b, BGRA_R), avg(b, BGRA_G),
                                               avg(b, BGRA_B)))>>
                      ELSE <<Unwritten, 0>>]
    IN  [y |-> PlaneAfter(YLen(width, height), ywrites),
         u |-> PlaneAfter(UVLen(width, height), uvwrites(UValue)),
         v |-> PlaneAfter(UVLen(width, height), uvwrites(VValue)),
         ywrites |-> ywrites,
         uvwrites |-> uvwrites(UValue)]

\* the 16-bit fixed-point ratio `(src << 16) / dst`
FixedRatio(src, dst) == Shl(src, 16) \div dst

\* sampling at the far edge of the target pixel instead of its near edge
ScaledSrcIdx_FarEdge(src_w, src_h, dst_w, dst_h, pos_x, pos_y) ==
    LET src_y == Shr((pos_y + 1) * FixedRatio(src_h, dst_h), 16)
        src_x == Shr((pos_x + 1) * FixedRatio(src_w, dst_w), 16)
    IN  (src_y * src_w + src_x) * BYTES_PER_PIXEL

\* the source byte index sampled for target position (pos_x, pos_y): pos is
\* dst for the Y loop and dst * 2 for the U/V loop
ScaledSrcIdx(src_w, src_h, dst_w, dst_h, pos_x, pos_y) ==
    LET src_y == Shr(pos_y * FixedRatio(src_h, dst_h), 16)
        src_x == Shr(pos_x * FixedRatio(src_w, dst_w), 16)
    IN  (src_y * src_w + src_x) * BYTES_PER_PIXEL

\* bgra_to_i420_scaled: nearest-neighbour downscale with 16-bit fixed-point
\* ratios, Y at every target pixel, U and V at every second one
bgra_to_i420_scaled(bgra, src_w, src_h, dst_w, dst_h) ==
    LET hw == dst_w \div 2
        hh == dst_h \div 2
        yidx(dst_x, dst_y) == ScaledSrcIdx(src_w, src_h, dst_w, dst_h, dst_x, dst_y)
        cidx(dst_x, dst_y) ==
            ScaledSrcIdx(src_w, src_h, dst_w, dst_h, dst_x * 2, dst_y * 2)
        ywrites ==
            [k \in 1..(dst_w * dst_h) |->
                LET dst_y == (k - 1) \div dst_w
                    dst_x == (k - 1) % dst_w
                    i == yidx(dst_x, dst_y)
                IN  IF Skipped(bgra, i) THEN <<Unwritten, 0>>
                    ELSE <<dst_y * dst_w + dst_x,
                           ClampU8(YValue(At(bgra, i + BGRA_R), At(bgra, i + BGRA_G),
                                          At(bgra, i + BGRA_B)))>>]
        uvwrites(F(_, _, _)) ==
            [k \in 1..(hw * hh) |->
                LET dst_y == (k - 1) \div hw
                    dst_x == (k - 1) % hw
                    i == cidx(dst_x, dst_y)
                    uv_idx == dst_y * hw + dst_x
                IN  IF Skipped(bgra, i) \/ uv_idx >= UVLen(dst_w, dst_h)
                      THEN <<Unwritten, 0>>
                      ELSE <<uv_idx,
                             ClampU8(F(At(bgra, i + BGRA_R), At(bgra, i + BGRA_G),
                                       At(bgra, i + BGRA_B)))>>]
    IN  [y |-> PlaneAfter(YLen(dst_w, dst_h), ywrites),
         u |-> PlaneAfter(UVLen(dst_w, dst_h), uvwrites(UValue)),
         v |-> PlaneAfter(UVLen(dst_w, dst_h), uvwrites(VValue)),
         ywrites |-> ywrites,
         uvwrites |-> uvwrites(UValue),
         srcidx |-> {yidx(x, y) : x \in 0..(dst_w - 1), y \in 0..(dst_h - 1)}
                      \cup {cidx(x, y) : x \in 0..(hw - 1), y \in 0..(hh - 1)}]

\* ---- inputs of the conversion functions and of the frame intake ----
MaxDim == 4

Dims == 1..MaxDim

\* pixels as <<B, G, R, A>>
PureRed == <<0, 0, 255, 255>>
Colours == {PureRed, <<0, 0, 0, 255>>, <<255, 255, 255, 255>>,
            <<255, 0, 0, 255>>, <<0, 255, 0, 255>>, <<16, 128, 240, 255>>}

SolidBuffer(colour, len) == [i \in 1..len |-> colour[((i - 1) % BYTES_PER_PIXEL) + 1]]
GradientBuffer(len) == [i \in 1..len |-> ((i - 1) * 37) % 256]

\* the byte lengths a frame of w x h pixels may arrive with: exact, one
\* pixel short, one pixel long
BufferLens(w, h) ==
    {l \in {w * h * BYTES_PER_PIXEL - BYTES_PER_PIXEL, w * h * BYTES_PER_PIXEL,
            w * h * BYTES_PER_PIXEL + BYTES_PER_PIXEL} : l >= 0}

Buffers(w, h) ==
    {SolidBuffer(c, l) : c \in Colours, l \in BufferLens(w, h)}
        \cup {GradientBuffer(l) : l \in BufferLens(w, h)}

\* a frame of src_w x src_h pixels to be turned into dst_w x dst_h
ConvInput(bgra, src_w, src_h, dst_w, dst_h) ==
    [bgra |-> bgra, src_w |-> src_w, src_h |-> src_h, dst_w |-> dst_w, dst_h |-> dst_h]

UnscaledInputs ==
    UNION {{ConvInput(b, w, h, w, h) : b \in Buffers(w, h)} : w \in Dims, h \in Dims}

ScaledInputs ==
    UNION {{ConvInput(b, sw, sh, d[1], d[2]) : b \in Buffers(sw, sh),
                                              d \in (1..sw) \X (1..sh)} :
           sw \in Dims, sh \in Dims}

\* the functions and frame handlers a frame can be handed to
ConvFns == {"bgra_to_i420", "bgra_to_i420_scaled"}
IntakeFns == {"capture_loop", "push_bgra_frame", "capture_thread"}

InitConvCall ==
    /\ pf_out = <<>>
    /\ \/ pf_fn \in {"bgra_to_i420"} \cup IntakeFns /\ pf_in \in UnscaledInputs
       \/ pf_fn = "bgra_to_i420_scaled" /\ pf_in \in ScaledInputs

\* what a frame handler leaves behind: its result and what it handed on
Intake(ret, sink) == <<[ret |-> ret, sink |-> sink]>>

ConvUnscaled ==
    /\ pf_fn = "bgra_to_i420" /\ pf_out = <<>>
    /\ pf_out' = <<bgra_to_i420(pf_in.bgra, pf_in.src_w, pf_in.src_h)>>
    /\ UNCHANGED <<pf_fn, pf_in>>

ConvScaled ==
    /\ pf_fn = "bgra_to_i420_scaled" /\ pf_out = <<>>
    /\ pf_out' = <<bgra_to_i420_scaled(pf_in.bgra, pf_in.src_w, pf_in.src_h,
                                       pf_in.dst_w, pf_in.dst_h)>>
    /\ UNCHANGED <<pf_fn, pf_in>>

\* NvfbcScreenShare::capture_loop, the Ok arm: convert whatever buffer came
\* and hand the frame to the source
CaptureLoopFrame ==
    /\ pf_fn = "capture_loop" /\ pf_out = <<>>
    /\ LET i420 == bgra_to_i420(pf_in.bgra, pf_in.src_w, pf_in.src_h)
       IN  pf_out' = Intake("Ok", <<[y |-> i420.y, u |-> i420.u, v |-> i420.v]>>)
    /\ UNCHANGED <<pf_fn, pf_in>>

\* GpuColorConverter::push_bgra_frame: length check, then allocate, copy
\* and push into the pipeline; allocation and push may fail
PushBgraFrame ==
    /\ pf_fn = "push_bgra_frame" /\ pf_out = <<>>
    /\ LET expected_size == pf_in.src_w * pf_in.src_h * BYTES_PER_PIXEL
       IN  IF Len(pf_in.bgra) # expected_size
             THEN pf_out' = Intake("Err", <<>>)
             ELSE \E pushed \in BOOLEAN :
                    pf_out' = IF pushed THEN Intake("Ok", <<pf_in.bgra>>)
                              ELSE Intake("Err", <<>>)
    /\ UNCHANGED <<pf_fn, pf_in>>

\* ScreenShareService::new, the capture thread's Ok arm: push only a buffer
\* of the expected size, leave the loop when the push fails
CaptureThreadFrame ==
    /\ pf_fn = "capture_thread" /\ pf_out = <<>>
    /\ LET expected_size == pf_in.src_w * pf_in.src_h * 4
       IN  IF Len(pf_in.bgra) = expected_size
             THEN \E pushed \in BOOLEAN :
                    pf_out' = IF pushed THEN Intake("continue", <<pf_in.bgra>>)
                              ELSE Intake("break", <<>>)
             ELSE pf_out' = Intake("continue", <<>>)
    /\ UNCHANGED <<pf_fn, pf_in>>

InitConv == InitAudio /\ InitCapIdle /\ InitPortalIdle /\ InitGenIdle
            /\ InitCreateIdle /\ InitLoopIdle /\ InitConvCall

NextConv ==
    \/ ConvUnscaled /\ UNCHANGED notPure
    \/ ConvScaled /\ UNCHANGED notPure
    \/ CaptureLoopFrame /\ UNCHANGED notPure
    \/ PushBgraFrame /\ UNCHANGED notPure
    \/ CaptureThreadFrame /\ UNCHANGED notPure

SpecConv == InitConv /\ [][NextConv]_vars

\* the call has returned; its result
Returned == pf_out # <<>>
Result == pf_out[1]

\* the buffer has exactly the bytes of a src_w x src_h BGRA frame
ExactSize == Len(pf_in.bgra) = pf_in.src_w * pf_in.src_h * BYTES_PER_PIXEL

\* C21: on every intake path a buffer whose length is not 4*W*H is turned
\* away and nothing of it reaches the sink, and a buffer of exactly 4*W*H
\* that is accepted hands on one frame.
C21_WrongSizeNeverDelivered ==
    (pf_fn \in IntakeFns /\ Returned) =>
        /\ ~ExactSize => Result.sink = <<>>
        /\ (ExactSize /\ Result.ret \in {"Ok", "continue"}) => Len(Result.sink) = 1

Even(n) == n % 2 = 0

\* every sample of a plane has the value val
AllSamples(plane, val) == \A i \in DOMAIN plane : plane[i] = val

\* C25: a solid-colour buffer (B,G,R,255) of W x H pixels, W and H even,
\* comes out of either converter with every Y, U and V sample equal to the
\* BT.601 value of that colour; pure red gives Y = 82, U = 90, V = 240.
C25_SolidColourPlanes ==
    (pf_fn \in ConvFns /\ Returned /\ ExactSize
        /\ Even(pf_in.src_w) /\ Even(pf_in.src_h)) =>
        \A c \in Colours :
            pf_in.bgra = SolidBuffer(c, Len(pf_in.bgra)) =>
                LET B == c[1]
                    G == c[2]
                    R == c[3]
                    clamp(x) == IF x < 0 THEN 0 ELSE IF x > 255 THEN 255 ELSE x
                    ey == clamp(((66 * R + 129 * G + 25 * B + 128) \div 256) + 16)
                    eu == clamp(((112 * B - 38 * R - 74 * G + 128) \div 256) + 128)
                    ev == clamp(((112 * R - 94 * G - 18 * B + 128) \div 256) + 128)
                IN  /\ AllSamples(Result.y, ey)
                    /\ AllSamples(Result.u, eu)
                    /\ AllSamples(Result.v, ev)
                    /\ c = <<0, 0, 255, 255>> => ey = 82 /\ eu = 90 /\ ev = 240

\* the size of the frame that comes out: the target's for the downscaler
OutW == pf_in.dst_w
OutH == pf_in.dst_h

\* C26: for even W and H and a buffer of the full length the planes have
\* W*H, W*H/4 and W*H/4 samples, and the conversion writes every index of
\* each plane exactly once and none outside it (W x H being the target of
\* the downscaler; 1280x720 gives 921600 / 230400 / 230400).
C26_PlanesWrittenOnce ==
    /\ YLen(1280, 720) = 921600 /\ UVLen(1280, 720) = 230400
    /\ (pf_fn \in ConvFns /\ Returned /\ ExactSize /\ Even(OutW) /\ Even(OutH)) =>
        /\ DOMAIN Result.y = 0..(OutW * OutH - 1)
        /\ DOMAIN Result.u = 0..((OutW * OutH) \div 4 - 1)
        /\ DOMAIN Result.v = DOMAIN Result.u
        /\ \A i \in DOMAIN Result.y :
              WriteCounts(OutW * OutH, Result.ywrites)[i] = 1
        /\ \A i \in DOMAIN Result.u :
              WriteCounts((OutW * OutH) \div 4, Result.uvwrites)[i] = 1
        /\ WritesOutside(OutW * OutH, Result.ywrites) = 0
        /\ WritesOutside((OutW * OutH) \div 4, Result.uvwrites) = 0
        /\ \A i \in DOMAIN Result.y : Result.y[i] \in 0..255
        /\ \A i \in DOMAIN Result.u : Result.u[i] \in 0..255 /\ Result.v[i] \in 0..255

C26_Witness ==
    /\ pf_fn = "bgra_to_i420_scaled" /\ Returned /\ ExactSize
    /\ pf_in.src_w = 4 /\ pf_in.src_h = 3 /\ OutW = 2 /\ OutH = 2
    /\ pf_in.bgra = GradientBuffer(Len(pf_in.bgra))
    /\ Len(Result.ywrites) = 4 /\ Len(Result.uvwrites) = 1

\* an iteration of a write loop that the guard skipped
SkippedWrites(writes) == {k \in DOMAIN writes : writes[k][1] = Unwritten}

\* C27: in the downscaler with 1 <= Dw <= Sw and 1 <= Dh <= Sh every source
\* byte index computed for a Y or a U/V sample lies in [0, Sw*Sh*4 - 4], so
\* with a buffer of the full length the guard skips no target sample.
C27_SourceIndexInRange ==
    (pf_fn = "bgra_to_i420_scaled" /\ Returned) =>
        /\ \A idx \in Result.srcidx :
              0 <= idx /\ idx <= pf_in.src_w * pf_in.src_h * 4 - 4
        /\ Len(pf_in.bgra) >= pf_in.src_w * pf_in.src_h * 4 =>
              /\ SkippedWrites(Result.ywrites) = {}
              /\ SkippedWrites(Result.uvwrites) = {}

C27_Witness ==
    /\ pf_fn = "bgra_to_i420_scaled" /\ Returned /\ ExactSize
    /\ pf_in.src_w = MaxDim /\ pf_in.src_h = MaxDim
    /\ pf_in.dst_w = MaxDim - 1 /\ pf_in.dst_h = MaxDim
    /\ MaxOf(Result.srcidx) = pf_in.src_w * pf_in.src_h * 4 - 8

\* ---- choice of the capture backend (lib.rs) ----
TargetOs == {"linux", "windows", "macos", "other"}

\* what the probe finds on the host: whether SystemCapturer::new() and
\* status() succeed, what status.can_create_now says, and whether the
\* desktop offers a screen-cast portal
Hosts ==
    [os : TargetOs, new_ok : BOOLEAN, status_ok : BOOLEAN,
     can_create_now : BOOLEAN, portal : BOOLEAN]

is_nvfbc_available(host) ==
    IF ~host.new_ok THEN FALSE
    ELSE IF ~host.status_ok THEN FALSE
    ELSE host.can_create_now

recommended_capture_backend(host) ==
    CASE host.os = "windows" -> "xcap (DXGI)"
      [] host.os = "linux" ->
            IF is_nvfbc_available(host) THEN "nvfbc (NVIDIA GPU, 50+ FPS)"
            ELSE "xcap (X11/Wayland, ~30 FPS)"
      [] host.os = "macos" -> "xcap (SCStreamOutput, 60+ FPS)"
      [] OTHER -> "xcap (fallback)"

\* the backend a returned description names
GpuNames == {"nvfbc (NVIDIA GPU, 50+ FPS)"}
GenericNames == {"xcap (DXGI)", "xcap (X11/Wayland, ~30 FPS)",
                 "xcap (SCStreamOutput, 60+ FPS)", "xcap (fallback)"}
BackendOf(name) ==
    IF name \in GpuNames THEN "GpuFramebuffer"
    ELSE IF name \in GenericNames THEN "Generic"
    ELSE "none"

InitSelectCall ==
    /\ pf_fn = "recommended_capture_backend"
    /\ pf_in \in Hosts
    /\ pf_out = <<>>

Recommend ==
    /\ pf_fn = "recommended_capture_backend" /\ pf_out = <<>>
    /\ pf_out' = <<recommended_capture_backend(pf_in)>>
    /\ UNCHANGED <<pf_fn, pf_in>>

InitSelect == InitAudio /\ InitCapIdle /\ InitPortalIdle /\ InitGenIdle
              /\ InitCreateIdle /\ InitLoopIdle /\ InitSelectCall

NextSelect == Recommend /\ UNCHANGED notPure

SpecSelect == InitSelect /\ [][NextSelect]_vars

\* C22: the selector returns the GPU framebuffer backend when the capturer
\* can be created now, else the portal backend when the host offers a
\* screen-cast portal, else the generic backend, and always some backend.
C22_FirstAvailableBackend ==
    (pf_fn = "recommended_capture_backend" /\ Returned) =>
        LET gpu == pf_in.new_ok /\ pf_in.status_ok /\ pf_in.can_create_now
        IN  /\ BackendOf(Result) \in {"GpuFramebuffer", "Portal", "Generic"}
            /\ gpu => BackendOf(Result) = "GpuFramebuffer"
            /\ (~gpu /\ pf_in.portal) => BackendOf(Result) = "Portal"
            /\ (~gpu /\ ~pf_in.portal) => BackendOf(Result) = "Generic"

\* ---- the audio session again: overflow and the gate (Spec) ----

\* `let _ = prod_in.try_push(..)` and `let _ = prod_out.try_push(s)`: what
\* try_push returns is discarded and the session has no counter, so the
\* number of rejected pushes it has on record stays what it was at the start
drops_counted_in == 0
drops_counted_out == 0

\* C23: on the capture ring and on the output ring the drop counter equals
\* the number of push attempts rejected because the ring was full.
C23_OverflowCounted ==
    /\ drops_counted_in = cap_count - Len(pushed_in)
    /\ drops_counted_out = out_count - Len(pushed_out)

\* C24: the voice gate starts Closed, opens only on a frame whose peak
\* exceeds the threshold, and its output is zero while Closed: the first
\* frame of a session, its peak not above the threshold, leaves the gate as
\* zeros whatever the threshold is.
C24_VoiceGateStartsClosed ==
    [][\A threshold \in SampleVals :
         LET peak == MaxOf({clean[i] : i \in DOMAIN clean})
         IN  (dsp_pc = "gate" /\ dsp_pc' # dsp_pc /\ Len(extracted) = 1
                /\ peak <= threshold)
                => output_frame' = Zeros]_vars

\* ---- target resolution and its alignment (video_service.rs) ----
VAAPI_ALIGNMENT == 16

\* the values modelled are the u32 values below 2^31; the additions made on
\* them stay below 2^31 too, so none wraps
WordMask == Pow2(30) - 1 + Pow2(30)

\* bitwise AND and NOT on those values
RECURSIVE BitAnd(_, _)
BitAnd(a, b) ==
    IF a = 0 \/ b = 0 THEN 0
    ELSE (a % 2) * (b % 2) + 2 * BitAnd(a \div 2, b \div 2)

BitNot(a) == WordMask - a

\* the same with one more than the source adds before masking
align_to_16_AddsAlignment(value) ==
    BitAnd(value + VAAPI_ALIGNMENT, BitNot(VAAPI_ALIGNMENT - 1))

\* (value + (VAAPI_ALIGNMENT - 1)) & !(VAAPI_ALIGNMENT - 1)
align_to_16(value) ==
    BitAnd(value + (VAAPI_ALIGNMENT - 1), BitNot(VAAPI_ALIGNMENT - 1))

MaxAlignN == 1935

\* the values align_to_16 is tried on: everything up to MaxAlignN and the
\* upper end of [0, 2^20]
AlignInputs == (0..MaxAlignN) \cup ((Pow2(20) - 17)..Pow2(20))

\* requested target widths and heights (0 asks for the native size) and
\* native screen sizes
TargetDims == {0, 1, 720, 854, 1280}
NativeDims == {640, 1366, 1920}

Resolutions ==
    [target_w : TargetDims, target_h : TargetDims,
     native_w : NativeDims, native_h : NativeDims]

Size(w, h) == [width |-> w, height |-> h]

\* ScreenShareService::new, step 4: the size of the I420 frames the pipeline
\* is built for
TargetResolution(target_w, target_h, native_w, native_h) ==
    IF target_w = 0 \/ target_h = 0
      THEN Size(align_to_16(native_w), align_to_16(native_h))
      ELSE Size(align_to_16(target_w), align_to_16(target_h))

\* NvfbcLowPowerCapture::capture_loop: the frames are allocated with the
\* settings' target size as it is; a zero in it makes the ratio's division
\* panic before any frame is delivered
LowPowerFrameSize(target_w, target_h) ==
    IF target_w = 0 \/ target_h = 0 THEN Size(0, 0) ELSE Size(target_w, target_h)

InitAlignCall ==
    /\ pf_out = <<>>
    /\ \/ pf_fn = "align_to_16" /\ pf_in \in AlignInputs
       \/ pf_fn \in {"ScreenShareService::new", "NvfbcLowPowerCapture::capture_loop"}
            /\ pf_in \in Resolutions

AlignCall ==
    /\ pf_fn = "align_to_16" /\ pf_out = <<>>
    /\ pf_out' = <<align_to_16(pf_in)>>
    /\ UNCHANGED <<pf_fn, pf_in>>

ScreenShareTarget ==
    /\ pf_fn = "ScreenShareService::new" /\ pf_out = <<>>
    /\ pf_out' = <<TargetResolution(pf_in.target_w, pf_in.target_h,
                                    pf_in.native_w, pf_in.native_h)>>
    /\ UNCHANGED <<pf_fn, pf_in>>

LowPowerFrame ==
    /\ pf_fn = "NvfbcLowPowerCapture::capture_loop" /\ pf_out = <<>>
    /\ pf_out' = <<LowPowerFrameSize(pf_in.target_w, pf_in.target_h)>>
    /\ UNCHANGED <<pf_fn, pf_in>>

InitAlign == InitAudio /\ InitCapIdle /\ InitPortalIdle /\ InitGenIdle
             /\ InitCreateIdle /\ InitLoopIdle /\ InitAlignCall

NextAlign ==
    \/ AlignCall /\ UNCHANGED notPure
    \/ ScreenShareTarget /\ UNCHANGED notPure
    \/ LowPowerFrame /\ UNCHANGED notPure

SpecAlign == InitAlign /\ [][NextAlign]_vars

\* C28: for n in [0, 2^20] align_to_16(n) is the smallest multiple of 16
\* not below n, so it leaves multiples of 16 alone and aligning twice is
\* aligning once; 1080 gives 1088, 854 gives 864, 720, 1920 and 480 stay.
C28_SmallestMultipleAbove ==
    (pf_fn = "align_to_16" /\ Returned /\ pf_in <= Pow2(20)) =>
        /\ Result % 16 = 0
        /\ Result >= pf_in
        /\ Result - pf_in < 16
        /\ pf_in % 16 = 0 => Result = pf_in
        /\ align_to_16(Result) = Result
        /\ pf_in = 1080 => Result = 1088
        /\ pf_in = 854 => Result = 864
        /\ pf_in \in {720, 1920, 480} => Result = pf_in

C28_Witness ==
    /\ pf_fn = "align_to_16" /\ Returned
    /\ pf_in = 1080 /\ Result = 1088

\* C29: whatever target is requested (0 asking for the native size) and
\* whatever the native size, the frames the generic service and the
\* low-power capturer deliver have a width and a height that are multiples
\* of 16 and not below the requested (or native) size.
C29_TargetAlignedUp ==
    (pf_fn \in {"ScreenShareService::new", "NvfbcLowPowerCapture::capture_loop"}
        /\ Returned) =>
        LET want_w == IF pf_in.target_w = 0 THEN pf_in.native_w ELSE pf_in.target_w
            want_h == IF pf_in.target_h = 0 THEN pf_in.native_h ELSE pf_in.target_h
        IN  /\ Result.width % 16 = 0 /\ Result.height % 16 = 0
            /\ Result.width >= want_w /\ Result.height >= want_h

\* ---- the input device AudioSession::create resolves (SpecCreate) ----

\* C30: once create has resolved its input device and the host's
\* enumeration did not fail: "default" gives the host default input; a
\* device named exactly as the id is the one chosen whenever there is one;
\* with none and an id holding CARD=<card>, the first device in host order
\* whose name contains <card> is chosen; with neither, create fails with
\* the device-not-found error.
C30_InputResolution ==
    (cr_pc # "in_device" /\ cr_err \notin {"enumerate", "no_mic"}) =>
        LET exact == {i \in 1..Len(cr_devs) : cr_devs[i] = cr_in_id}
            bycard == IF HasCard(cr_in_id)
                        THEN {i \in 1..Len(cr_devs) :
                                Contains(cr_devs[i], CardName(cr_in_id))}
                        ELSE {}
        IN  IF cr_in_id = <<"default">> THEN cr_in_dev = <<"default">>
            ELSE IF exact # {} THEN cr_in_dev = cr_in_id
            ELSE IF bycard # {}
              THEN /\ cr_in_dev = cr_devs[MinOf(bycard)]
                   /\ \A i \in 1..(MinOf(bycard) - 1) :
                         ~Contains(cr_devs[i], CardName(cr_in_id))
            ELSE cr_result = "err" /\ cr_err = "not_found" /\ cr_in_dev = <<>>

\* the id is the second device, the first one holds the same card name
C30_Witness ==
    /\ cr_pc # "in_device"
    /\ cr_in_id = DevSys
    /\ cr_devs = <<DevPlug, DevSys>>
    /\ Contains(DevPlug, CardName(DevSys))
    /\ cr_in_dev = DevSys

\* ---- the input device list (get_professional_device_list) ----
\* strings are sequences of characters

UpperCase == <<"A", "B", "C", "D", "E", "F", "G", "H", "I", "J", "K", "L", "M",
               "N", "O", "P", "Q", "R", "S", "T", "U", "V", "W", "X", "Y", "Z">>
LowerCase == <<"a", "b", "c", "d", "e", "f", "g", "h", "i", "j", "k", "l", "m",
               "n", "o", "p", "q", "r", "s", "t", "u", "v", "w", "x", "y", "z">>

IndexIn(seq, c) == CHOOSE i \in 1..Len(seq) : seq[i] = c

\* the byte of an ASCII character, the first byte of the dotless i
ByteOf(c) ==
    IF \E i \in 1..26 : UpperCase[i] = c THEN 64 + IndexIn(UpperCase, c)
    ELSE IF \E i \in 1..26 : LowerCase[i] = c THEN 96 + IndexIn(LowerCase, c)
    ELSE CASE c = " " -> 32 [] c = "(" -> 40 [] c = ")" -> 41 [] c = "," -> 44
           [] c = "/" -> 47 [] c = "0" -> 48 [] c = "1" -> 49 [] c = ":" -> 58
           [] c = "=" -> 61 [] c = "dotless_i" -> 196

\* `to_lowercase`
ToLowerChar(c) ==
    IF \E i \in 1..26 : UpperCase[i] = c THEN LowerCase[IndexIn(UpperCase, c)] ELSE c
to_lowercase(s) == [i \in 1..Len(s) |-> ToLowerChar(s[i])]

\* `starts_with`
starts_with(s, p) == Len(p) <= Len(s) /\ SubSeq(s, 1, Len(p)) = p

\* where pat first occurs in s, 0 when it does not
FirstPos(s, pat) ==
    LET I == {i \in 1..(Len(s) - Len(pat) + 1) : SubSeq(s, i, i + Len(pat) - 1) = pat}
    IN  IF I = {} THEN 0 ELSE MinOf(I)

\* `s.split(pat).next()`: s up to the first pat
SplitFirst(s, pat) ==
    IF FirstPos(s, pat) = 0 THEN s ELSE SubSeq(s, 1, FirstPos(s, pat) - 1)

\* `s.split(pat).nth(1)` when pat occurs in s: what follows the first pat,
\* up to the next one
SplitSecond(s, pat) ==
    SplitFirst(SubSeq(s, FirstPos(s, pat) + Len(pat), Len(s)), pat)

\* `a.cmp(&b) == Less` on strings: byte by byte, a proper prefix first
RECURSIVE StrLess(_, _)
StrLess(a, b) ==
    IF b = <<>> THEN FALSE
    ELSE IF a = <<>> THEN TRUE
    ELSE IF ByteOf(a[1]) # ByteOf(b[1]) THEN ByteOf(a[1]) < ByteOf(b[1])
    ELSE StrLess(Tail(a), Tail(b))

NameDefault == <<"d", "e", "f", "a", "u", "l", "t">>
NameHw == <<"h", "w", ":", "C", "A", "R", "D", "=", "P", "C", "H">>
NameSysPCH == <<"s", "y", "s", "d", "e", "f", "a", "u", "l", "t", ":", "C", "A", "R", "D", "=", "P", "C", "H">>
NameSysSof == <<"s", "y", "s", "d", "e", "f", "a", "u", "l", "t", ":", "C", "A", "R", "D", "=", "s", "o", "f">>
NamePlugUSB0 == <<"p", "l", "u", "g", "h", "w", ":", "C", "A", "R", "D", "=", "U", "S", "B", ",", "D", "E", "V", "=", "0">>
NamePlugUSB1 == <<"p", "l", "u", "g", "h", "w", ":", "C", "A", "R", "D", "=", "U", "S", "B", ",", "D", "E", "V", "=", "1">>
NamePlugHDMI == <<"p", "l", "u", "g", "h", "w", ":", "C", "A", "R", "D", "=", "H", "D", "M", "I", ",", "D", "E", "V", "=", "0">>
NamePlugBare == <<"p", "l", "u", "g", "h", "w", ":", "u", "s", "b">>
NamePulse == <<"p", "u", "l", "s", "e">>

CardEq == <<"C", "A", "R", "D", "=">>
SysDefaultWord == <<"s", "y", "s", "d", "e", "f", "a", "u", "l", "t">>
PlugHwWord == <<"p", "l", "u", "g", "h", "w">>
SystemDefaultSuffix == <<" ", "(", "S", "y", "s", "t", "e", "m", " ", "D", "e", "f", "a", "u", "l", "t", ")">>
DirectPlugSuffix == <<" ", "(", "D", "i", "r", "e", "c", "t", "/", "P", "l", "u", "g", ")">>
\* "Sistem Varsayılanı (Pulse/Pipewire)"
DefaultDisplayName ==
    <<"S", "i", "s", "t", "e", "m", " ", "V", "a", "r", "s", "a", "y", "dotless_i", "l", "a", "n", "dotless_i",
      " ", "(", "P", "u", "l", "s", "e", "/", "P", "i", "p", "e", "w", "i", "r", "e", ")">>
ExcludedWords == {<<"d", "m", "i", "x">>,
                  <<"d", "s", "n", "o", "o", "p">>,
                  <<"s", "u", "r", "r", "o", "u", "n", "d">>,
                  <<"f", "r", "o", "n", "t">>,
                  <<"r", "e", "a", "r">>,
                  <<"c", "e", "n", "t", "e", "r">>,
                  <<"s", "i", "d", "e">>,
                  <<"i", "e", "c", "9", "5", "8">>,
                  <<"h", "d", "m", "i">>,
                  <<"n", "u", "l", "l">>}
HwPrefix == <<"h", "w", ":">>

MaxDevices == 3

\* a device of the host: the result of device.name()
NamedDevice(name) == [name_ok |-> TRUE, name |-> name]
NamelessDevice == [name_ok |-> FALSE, name |-> <<>>]

HostDevices ==
    {NamedDevice(n) : n \in {NameDefault, NameHw, NameSysPCH, NameSysSof, NamePlugUSB0,
                             NamePlugUSB1, NamePlugHDMI, NamePlugBare, NamePulse}}
        \cup {NamelessDevice}

\* what host.input_devices() gives: Err, or the devices in host order
InputHosts ==
    {[enum_ok |-> FALSE, devices |-> <<>>]}
        \cup {[enum_ok |-> TRUE, devices |-> d] :
                d \in UNION {[1..n -> HostDevices] : n \in 0..MaxDevices}}

AudioDeviceInfo(id, display_name) == [id |-> id, display_name |-> display_name]

\* the filter of lines 72-90: TRUE when the device is passed over
Filtered(id) ==
    LET l_id == to_lowercase(id)
    IN  \/ starts_with(l_id, HwPrefix)
        \/ \E w \in ExcludedWords : Contains(l_id, w)
        \/ id = NameDefault
        \/ ~(Contains(l_id, SysDefaultWord) \/ Contains(l_id, PlugHwWord))

\* the display name of lines 92-101
clean_name(id) ==
    IF FirstPos(id, CardEq) # 0
      THEN LET raw_name == SplitFirst(SplitSecond(id, CardEq), <<",">>)
           IN  IF Contains(to_lowercase(id), SysDefaultWord)
                 THEN raw_name \o SystemDefaultSuffix
                 ELSE raw_name \o DirectPlugSuffix
      ELSE id

\* the loop over the devices: list and seen_friendly after the first n
RECURSIVE Collected(_, _)
Collected(devices, n) ==
    IF n = 0
      THEN [list |-> <<AudioDeviceInfo(NameDefault, DefaultDisplayName)>>,
            seen_friendly |-> {DefaultDisplayName}]
      ELSE LET before == Collected(devices, n - 1)
               device == devices[n]
           IN  IF ~device.name_ok \/ Filtered(device.name)
                    \/ clean_name(device.name) \in before.seen_friendly
                 THEN before
                 ELSE [list |-> Append(before.list,
                                       AudioDeviceInfo(device.name, clean_name(device.name))),
                       seen_friendly |-> before.seen_friendly
                                            \cup {clean_name(device.name)}]

\* a comparator that looks at the display names only
DeviceLess_NameOnly(a, b) == StrLess(a.display_name, b.display_name)

\* the comparator of sort_by gives Less
DeviceLess(a, b) ==
    IF a.id = NameDefault THEN TRUE
    ELSE IF b.id = NameDefault THEN FALSE
    ELSE StrLess(a.display_name, b.display_name)

\* a stable sort: each element goes in front of the trailing run of
\* elements it is Less than
RECURSIVE sort_by(_)
sort_by(list) ==
    IF list = <<>> THEN <<>>
    ELSE LET sorted == sort_by(SubSeq(list, 1, Len(list) - 1))
             x == list[Len(list)]
             keep == MaxOf({j \in 0..Len(sorted) :
                              \A k \in (j + 1)..Len(sorted) : DeviceLess(x, sorted[k])}
                            \ {j \in 1..Len(sorted) : DeviceLess(x, sorted[j])})
         IN  SubSeq(sorted, 1, keep) \o <<x>> \o SubSeq(sorted, keep + 1, Len(sorted))

get_professional_device_list(host) ==
    sort_by(IF host.enum_ok THEN Collected(host.devices, Len(host.devices)).list
            ELSE Collected(<<>>, 0).list)

InitListCall ==
    /\ pf_fn = "get_professional_device_list"
    /\ pf_in \in InputHosts
    /\ pf_out = <<>>

ListDevices ==
    /\ pf_fn = "get_professional_device_list" /\ pf_out = <<>>
    /\ pf_out' = <<get_professional_device_list(pf_in)>>
    /\ UNCHANGED <<pf_fn, pf_in>>

InitList == InitAudio /\ InitCapIdle /\ InitPortalIdle /\ InitGenIdle
            /\ InitCreateIdle /\ InitLoopIdle /\ InitListCall

NextList == ListDevices /\ UNCHANGED notPure

SpecList == InitList /\ [][NextList]_vars

\* C31: whatever the host's input devices are, none and a failed
\* enumeration included, the list is not empty, its first entry has id
\* "default" and no other entry has.
C31_DefaultFirstAndOnly ==
    (pf_fn = "get_professional_device_list" /\ Returned) =>
        /\ Len(Result) >= 1
        /\ Result[1].id = <<"d", "e", "f", "a", "u", "l", "t">>
        /\ \A i \in 2..Len(Result) : Result[i].id # <<"d", "e", "f", "a", "u", "l", "t">>

C31_Witness ==
    /\ pf_fn = "get_professional_device_list" /\ Returned
    /\ pf_in.enum_ok /\ Len(pf_in.devices) = MaxDevices
    /\ pf_in.devices[1] = NamedDevice(NameSysSof)
    /\ pf_in.devices[2] = NamedDevice(NameDefault)
    /\ pf_in.devices[3] = NamedDevice(NameSysPCH)
    /\ Len(Result) = 3

\* C32: the synthetic default comes first, the other entries follow in
\* case-insensitive lexicographic order of display name, no two entries
\* share a display name, and of devices with the same display name the
\* first in host order is the one listed.
C32_SortedFoldingCase ==
    (pf_fn = "get_professional_device_list" /\ Returned) =>
        /\ Result[1].id = NameDefault
        /\ \A i \in 2..(Len(Result) - 1) :
              StrLess(to_lowercase(Result[i].display_name),
                      to_lowercase(Result[i + 1].display_name))
        /\ \A i, j \in 1..Len(Result) :
              i # j => Result[i].display_name # Result[j].display_name
        /\ \A i \in 2..Len(Result) :
              \E k \in 1..Len(pf_in.devices) :
                  /\ pf_in.devices[k].name = Result[i].id
                  /\ \A m \in 1..(k - 1) :
                        (pf_in.devices[m].name_ok /\ ~Filtered(pf_in.devices[m].name))
                            => clean_name(pf_in.devices[m].name) # Result[i].display_name

\* ---- the I16 capture callback's conversion (audio_service.rs 168-170) ----
I16_MAX == 32767
I16_MIN == -32768

\* how far from 0 and from the two ends of the i16 range the conversion is
\* tried
MaxNear == 40

I16Inputs ==
    (I16_MIN..(I16_MIN + MaxNear)) \cup ((0 - MaxNear)..MaxNear)
        \cup ((I16_MAX - MaxNear)..I16_MAX)

\* the first n binary digits of r / d after the point, for 0 <= r < d
RECURSIVE FracBits(_, _, _)
FracBits(r, d, n) ==
    IF n = 0 THEN 0
    ELSE ((2 * r) \div d) * Pow2(n - 1) + FracBits((2 * r) % d, d, n - 1)

\* an f32 of magnitude below 2 in units of 2^-23 (the spacing of f32 from 1
\* to 2), sign apart
F32_ONE == Pow2(23)

\* `a as f32 / b as f32` for integers |a| < 2 * b: the quotient rounded to
\* the nearest unit
DivF32(a, b) ==
    LET mag == IF a < 0 THEN 0 - a ELSE a
        q24 == (mag \div b) * Pow2(24) + FracBits(mag % b, b, 24)
    IN  [neg |-> a < 0, units |-> (q24 + 1) \div 2]

\* `chunk[0] as f32 / i16::MAX as f32`
i16_to_sample(s) == DivF32(s, I16_MAX)

InitSampleCall ==
    /\ pf_fn = "i16_capture"
    /\ pf_in \in I16Inputs
    /\ pf_out = <<>>

\* the I16 capture callback takes one sample to the ring
ConvertI16 ==
    /\ pf_fn = "i16_capture" /\ pf_out = <<>>
    /\ pf_out' = <<i16_to_sample(pf_in)>>
    /\ UNCHANGED <<pf_fn, pf_in>>

InitSample == InitAudio /\ InitCapIdle /\ InitPortalIdle /\ InitGenIdle
              /\ InitCreateIdle /\ InitLoopIdle /\ InitSampleCall

NextSample == ConvertI16 /\ UNCHANGED notPure

SpecSample == InitSample /\ [][NextSample]_vars

\* C33: for every signed 16-bit input the sample the I16 callback pushes
\* into the capture ring has magnitude at most 1.
C33_SampleWithinUnit ==
    (pf_fn = "i16_capture" /\ Returned) => Result.units <= F32_ONE

\* ---- the playback callback on one OS output block (lines 174-180) ----
MaxBlock == 3
MaxChannels == 2

\* the block the OS asks for: frames of `out_ch` channels each
InitBlockCall ==
    /\ pf_fn = "playback"
    /\ pf_in \in [frames : 1..MaxBlock, channels : 1..MaxChannels]
    /\ pf_out = <<>>

\* the worker pushes a sample into the output ring (`prod_out.try_push(s)`)
ProducerPush ==
    /\ pf_fn = "playback"
    /\ out_count < MaxResOut
    /\ LET r == try_push(ring_out, out_count + 1) IN
         /\ ring_out' = r.ring
         /\ pushed_out' = IF r.ok THEN Append(pushed_out, out_count + 1) ELSE pushed_out
    /\ out_count' = out_count + 1
    /\ UNCHANGED <<session_live, pttVars, dsp_pc, dspLocals, res_count, extracted,
                   proc_err, inVars, popped_out, placed, pureVars>>

\* the OS calls the callback: data is still to be written; what the ring
\* held and what had been pushed at that moment is kept for the properties
PlaybackBegin ==
    /\ pf_fn = "playback" /\ pf_out = <<>>
    /\ pf_out' = <<[data |-> <<>>, occupancy |-> Len(ring_out), pushes |-> out_count,
                    pops |-> 0]>>
    /\ UNCHANGED <<audioVars, pf_fn, pf_in>>

\* a turn that writes the sample to the first channel only
PlaybackChunk_FirstChannelOnly ==
    /\ pf_fn = "playback" /\ pf_out # <<>>
    /\ Len(pf_out[1].data) < pf_in.frames
    /\ LET r == try_pop(ring_out)
           smp == IF r.ok THEN r.val ELSE 0
       IN  /\ ring_out' = r.ring
           /\ popped_out' = IF r.ok THEN Append(popped_out, r.val) ELSE popped_out
           /\ pf_out' = <<[pf_out[1] EXCEPT
                             !.data = Append(@, [ch \in 1..pf_in.channels |->
                                              IF ch = 1 THEN smp ELSE 0]),
                             !.pops = IF r.ok THEN @ + 1 ELSE @]>>
    /\ UNCHANGED <<session_live, pttVars, dsp_pc, dspLocals, res_count, extracted,
                   proc_err, inVars, out_count, pushed_out, placed, pf_fn, pf_in>>

\* one turn of `for chunk in data.chunks_mut(out_ch)`: pop or take 0.0,
\* write it to every channel of the chunk
PlaybackChunk ==
    /\ pf_fn = "playback" /\ pf_out # <<>>
    /\ Len(pf_out[1].data) < pf_in.frames
    /\ LET r == try_pop(ring_out)
           smp == IF r.ok THEN r.val ELSE 0
       IN  /\ ring_out' = r.ring
           /\ popped_out' = IF r.ok THEN Append(popped_out, r.val) ELSE popped_out
           /\ pf_out' = <<[pf_out[1] EXCEPT
                             !.data = Append(@, [ch \in 1..pf_in.channels |-> smp]),
                             !.pops = IF r.ok THEN @ + 1 ELSE @]>>
    /\ UNCHANGED <<session_live, pttVars, dsp_pc, dspLocals, res_count, extracted,
                   proc_err, inVars, out_count, pushed_out, placed, pf_fn, pf_in>>

InitBlock == InitAudio /\ InitCapIdle /\ InitPortalIdle /\ InitGenIdle
             /\ InitCreateIdle /\ InitLoopIdle /\ InitBlockCall

NextBlock ==
    \/ ProducerPush /\ UNCHANGED <<capVars, portalVars, genVars, createVars,
                                    loopVars>>
    \/ PlaybackBegin /\ UNCHANGED <<capVars, portalVars, genVars, createVars,
                                    loopVars>>
    \/ PlaybackChunk /\ UNCHANGED <<capVars, portalVars, genVars, createVars,
                                    loopVars>>

SpecBlock == InitBlock /\ [][NextBlock]_vars

\* the callback has written its whole block
BlockDone == pf_fn = "playback" /\ pf_out # <<>> /\ Len(pf_out[1].data) = pf_in.frames

\* C34 as stated: the callback pops exactly min(F, occupancy) samples for
\* a block of F frames, occupancy being what the output ring held when the
\* callback was called.
C34_PopsMinOfBlockAndOccupancy ==
    BlockDone =>
        pf_out[1].pops = IF pf_in.frames < pf_out[1].occupancy
                           THEN pf_in.frames ELSE pf_out[1].occupancy

\* C34: for a block of F frames of N channels the callback pops at most
\* one sample per frame, writes it to all N channels of the frame and
\* writes 0 to all channels of a frame whose pop found the ring empty; it
\* pops at least min(F, occupancy at the call) samples, and exactly that
\* many when the worker pushes nothing while the callback runs; a turn of
\* the callback is never held up by the ring.
C34_BlockFanOut ==
    /\ [][PlaybackChunk =>
            LET last == pf_out'[1].data[Len(pf_out'[1].data)]
            IN  /\ Len(last) = pf_in.channels
                /\ Len(ring_out) - Len(ring_out') \in {0, 1}
                /\ ring_out # <<>> =>
                      /\ ring_out' = Tail(ring_out)
                      /\ \A ch \in 1..pf_in.channels : last[ch] = Head(ring_out)
                /\ ring_out = <<>> =>
                      /\ ring_out' = <<>>
                      /\ \A ch \in 1..pf_in.channels : last[ch] = 0]_vars
    /\ [](BlockDone =>
            LET least == IF pf_in.frames < pf_out[1].occupancy
                           THEN pf_in.frames ELSE pf_out[1].occupancy
            IN  /\ pf_out[1].pops >= least
                /\ pf_out[1].pops <= pf_in.frames
                /\ out_count = pf_out[1].pushes => pf_out[1].pops = least)
    /\ []((pf_fn = "playback" /\ pf_out # <<>> /\ ~BlockDone) => ENABLED PlaybackChunk)

\* a block that met an empty ring first and a sample later
C34_Witness ==
    /\ BlockDone
    /\ pf_in.frames = MaxBlock /\ pf_in.channels = MaxChannels
    /\ pf_out[1].occupancy = 0
    /\ pf_out[1].data[1] = [ch \in 1..MaxChannels |-> 0]
    /\ pf_out[1].data[2] # pf_out[1].data[1]
    /\ pf_out[1].pops = 1

\* ---- the low-power capturer's settings and frames (nvfbc_lowpower.rs) ----
LowPowerSettings(w, h, fps) == [target_width |-> w, target_height |-> h, target_fps |-> fps]

\* `LowPowerSettings::default()`
LowPowerDefault == LowPowerSettings(1280, 720, 30)

SettingsTried ==
    {LowPowerDefault, LowPowerSettings(854, 480, 15), LowPowerSettings(1920, 1080, 60),
     LowPowerSettings(0, 720, 30)}

\* sizes of the frames the driver hands over
SourceSizes == {Size(1920, 1080), Size(3840, 2160), Size(640, 480)}

MaxLpFrames == 2

InitLowPowerCall ==
    /\ pf_fn = "lowpower"
    /\ pf_in \in SettingsTried
    /\ pf_out = <<>>

\* `capturer.start(BufferFormat::Bgra, settings.target_fps)`
LpStart ==
    /\ pf_fn = "lowpower" /\ pf_out = <<>>
    /\ pf_out' = <<[fps |-> pf_in.target_fps, delivered |-> <<>>, sources |-> <<>>,
                    panicked |-> FALSE]>>
    /\ UNCHANGED <<pf_fn, pf_in>>

\* a frame that hands on the size it was captured at
LpFrameBuffer_SourceSize(settings, frame_info) == frame_info

\* `I420Buffer::new(target_width, target_height)`: the frame handed to the
\* sink, whatever frame_info says
LpFrameBuffer(settings, frame_info) == Size(settings.target_width, settings.target_height)

\* the Ok arm of the loop: scale and convert into a target-size buffer and
\* deliver it; a zero target makes the ratio's division panic the thread
LpFrame ==
    /\ pf_fn = "lowpower" /\ pf_out # <<>>
    /\ ~pf_out[1].panicked
    /\ Len(pf_out[1].sources) < MaxLpFrames
    /\ \E frame_info \in SourceSizes :
         IF pf_in.target_width = 0 \/ pf_in.target_height = 0
           THEN pf_out' = <<[pf_out[1] EXCEPT !.panicked = TRUE,
                                             !.sources = Append(@, frame_info)]>>
           ELSE pf_out' = <<[pf_out[1] EXCEPT
                               !.delivered = Append(@, LpFrameBuffer(pf_in, frame_info)),
                               !.sources = Append(@, frame_info)]>>
    /\ UNCHANGED <<pf_fn, pf_in>>

InitLowPower == InitAudio /\ InitCapIdle /\ InitPortalIdle /\ InitGenIdle
                /\ InitCreateIdle /\ InitLoopIdle /\ InitLowPowerCall

NextLowPower ==
    \/ LpStart /\ UNCHANGED notPure
    \/ LpFrame /\ UNCHANGED notPure

SpecLowPower == InitLowPower /\ [][NextLowPower]_vars

\* C35: the default settings are 1280 x 720 at 30 FPS, the capture session
\* is started at the settings' FPS, and every frame the low-power capturer
\* delivers has exactly the target width and height, whatever the size of
\* the source frame.
C35_LowPowerProfile ==
    /\ LowPowerDefault.target_width = 1280
    /\ LowPowerDefault.target_height = 720
    /\ LowPowerDefault.target_fps = 30
    /\ (pf_fn = "lowpower" /\ pf_out # <<>>) =>
          /\ pf_out[1].fps = pf_in.target_fps
          /\ \A i \in 1..Len(pf_out[1].delivered) :
                /\ pf_out[1].delivered[i].width = pf_in.target_width
                /\ pf_out[1].delivered[i].height = pf_in.target_height

\* the default profile fed a 4K frame and then a small one
C35_Witness ==
    /\ pf_fn = "lowpower" /\ pf_out # <<>>
    /\ pf_in = LowPowerDefault
    /\ pf_out[1].fps = 30
    /\ pf_out[1].sources = <<Size(3840, 2160), Size(640, 480)>>
    /\ pf_out[1].delivered = <<Size(1280, 720), Size(1280, 720)>>
----------------------------------------------------------------------------
(* The CPU capture paths side by side: one backend runs per share *)

\* the portal backend next to the three framebuffer variants
PortalBackend == "portal"

\* the capture handle stays unbuilt while the portal backend runs
InitCapUnused ==
    /\ variant = PortalBackend
    /\ running = FALSE
    /\ handle = "none"
    /\ cap_pc = "none"
    /\ frame_count = 0
    /\ sink_frames = 0
    /\ conv_pushed = 0
    /\ conv_pending = 0
    /\ conv_state = "none"
    /\ stop_calls = 0
    /\ started = FALSE
    /\ after_stop_frames = 0
    /\ last_result = "none"
    /\ stop_err = FALSE
    /\ stop_logged = FALSE
    /\ init_failed = FALSE
    /\ joins = 0

InitPaths == InitAudio /\ (InitCapture \/ InitCapUnused) /\ InitExtIdle

\* the share runs the backend it was built with
NextPaths ==
    \/ variant # PortalBackend /\ NextCap
    \/ variant = PortalBackend /\ NextPortal

SpecPaths == InitPaths /\ [][NextPaths]_vars

\* the paths that convert on the CPU and call capture_frame themselves
CpuPath == variant \in {"cpu", "lowpower"}

----------------------------------------------------------------------------
(* The session manager loop of main *)

\* device ids the settings may hold; "" is the initial value of last_id
DeviceIds == {"default", "sysdefault:CARD=PCH", ""}

\* calls of create followed
MaxAttempts == 3

NoSession == <<>>

\* `let mut _session = None; let mut last_id = String::new();` with the
\* settings at their Default
InitLoop ==
    /\ input_device_id = "default"
    /\ ml_pc = "read"
    /\ current_id = ""
    /\ last_id = ""
    /\ main_session = NoSession
    /\ live_sessions = 0
    /\ attempts = <<>>

\* another holder of the shared settings selects a device
SetInputDevice ==
    /\ \E id \in DeviceIds :
         /\ id # input_device_id
         /\ input_device_id' = id
    /\ UNCHANGED <<ml_pc, current_id, last_id, main_session, live_sessions,
                   attempts>>

\* the top of a pass: the id is read under the lock and compared with
\* last_id
LoopRead ==
    /\ ml_pc = "read"
    /\ current_id' = input_device_id
    /\ ml_pc' = IF input_device_id = last_id THEN "sleep"
                 ELSE IF main_session # NoSession THEN "close"
                 ELSE "create"
    /\ UNCHANGED <<input_device_id, last_id, main_session, live_sessions,
                   attempts>>

\* `_session = None`: the old session is dropped
LoopClose ==
    /\ ml_pc = "close"
    /\ main_session' = NoSession
    /\ live_sessions' = live_sessions - 1
    /\ ml_pc' = "create"
    /\ UNCHANGED <<input_device_id, current_id, last_id, attempts>>

\* a loop that leaves last_id alone when create fails
LoopCreate_RetryOnError ==
    /\ ml_pc = "create"
    /\ Len(attempts) < MaxAttempts
    /\ \E ok \in BOOLEAN :
         /\ attempts' = Append(attempts, [id |-> current_id, ok |-> ok])
         /\ IF ok
              THEN /\ main_session' = <<current_id>>
                   /\ live_sessions' = live_sessions + 1
                   /\ last_id' = current_id
              ELSE UNCHANGED <<main_session, live_sessions, last_id>>
    /\ ml_pc' = "sleep"
    /\ UNCHANGED <<input_device_id, current_id>>

\* the one-second sleep and AudioSession::create(&current_id, ..): Ok stores
\* the session, and both arms set last_id
LoopCreate ==
    /\ ml_pc = "create"
    /\ Len(attempts) < MaxAttempts
    /\ \E ok \in BOOLEAN :
         /\ attempts' = Append(attempts, [id |-> current_id, ok |-> ok])
         /\ IF ok
              THEN /\ main_session' = <<current_id>>
                   /\ live_sessions' = live_sessions + 1
              ELSE UNCHANGED <<main_session, live_sessions>>
    /\ last_id' = current_id
    /\ ml_pc' = "sleep"
    /\ UNCHANGED <<input_device_id, current_id>>

\* the 100 ms sleep that ends a pass
LoopSleep ==
    /\ ml_pc = "sleep"
    /\ ml_pc' = "read"
    /\ UNCHANGED <<input_device_id, current_id, last_id, main_session,
                   live_sessions, attempts>>

InitSession ==
    /\ InitAudio /\ InitCapIdle /\ InitPortalIdle /\ InitGenIdle
    /\ InitCreateIdle /\ InitPureIdle /\ InitLoop

NextSession ==
    \/ SetInputDevice /\ UNCHANGED notLoop
    \/ LoopRead /\ UNCHANGED notLoop
    \/ LoopClose /\ UNCHANGED notLoop
    \/ LoopCreate /\ UNCHANGED notLoop
    \/ LoopSleep /\ UNCHANGED notLoop

SpecSession == InitSession /\ [][NextSession]_vars

\* create was called in this step
Attempted == attempts' # attempts

\* C37: the loop holds at most one AudioSession: create is called only for
\* an id that differs from last_id and only with no session held (the old
\* one was released first); either outcome records the id in last_id, so
\* two successive calls never carry the same id; and the held session
\* changes only in a pass that read an id different from last_id.
C37_OneSessionAtATime ==
    /\ [](live_sessions <= 1)
    /\ [](live_sessions = Len(main_session))
    /\ [][Attempted =>
            /\ current_id # last_id
            /\ main_session = NoSession
            /\ live_sessions = 0
            /\ last_id' = current_id]_vars
    /\ [](\A i \in 1..(Len(attempts) - 1) : attempts[i].id # attempts[i + 1].id)
    /\ [][(ml_pc = "read" /\ ml_pc' # "read" /\ input_device_id = last_id) =>
            (ml_pc' = "sleep" /\ main_session' = main_session)]_vars
    /\ [][main_session' # main_session => current_id # last_id]_vars

\* a failed creation, then passes that leave things alone, then a session
\* for another id
C37_Witness ==
    /\ Len(attempts) >= 2
    /\ ~attempts[1].ok
    /\ main_session = <<last_id>>
    /\ ml_pc = "sleep"
    /\ current_id = last_id
    /\ Len(attempts) = MaxAttempts

----------------------------------------------------------------------------
(* Frames around shutdown *)

\* shutdown() has returned to its caller
ShutdownReturned == handle = "returned"

----------------------------------------------------------------------------
(* The chunk fill of the DSP worker *)

\* samples the chunk being filled still lacks
StillNeeded == input_frames_next - Len(chunk)

\* C39: the worker never pops from an empty capture ring: while it fills a
\* chunk the ring holds at least the samples the chunk still lacks,
\* whatever the capture callback does in between, so no pop of the fill
\* fails; a fill removes exactly `needed` samples, and a loop head that finds
\* fewer queued removes none.
C39_PopsNeverFail ==
    /\ [][dsp_pc = "pop" => dsp_pc' # "panicked"]_vars
    /\ [](dsp_pc = "pop" => occupied_len(ring_in) >= StillNeeded)
    /\ [](dsp_pc = "pop" => StillNeeded > 0)
    /\ [](dsp_pc = "resample" => Len(chunk) = input_frames_next)
    /\ [][Len(popped_in') # Len(popped_in) =>
            /\ dsp_pc = "pop"
            /\ Len(popped_in') = Len(popped_in) + 1
            /\ Len(ring_in') = Len(ring_in) - 1]_vars
    /\ [](dsp_pc # "pop" => Len(popped_in) % input_frames_next = 0)
    /\ [][(dsp_pc = "loop" /\ dsp_pc' # "loop"
              /\ occupied_len(ring_in) < input_frames_next) =>
            (dsp_pc' = "sleep" /\ popped_in' = popped_in
               /\ ring_in' = ring_in)]_vars

\* in the middle of a fill, after the callback has pushed the ring full
\* again behind the first pop
C39_Witness ==
    /\ dsp_pc = "pop"
    /\ Len(chunk) = 1
    /\ RingIsFull(ring_in)

----------------------------------------------------------------------------
(* The appsink callbacks that copy an I420 sample into an I420Buffer *)

\* bytes a sample may fall short of, or exceed, the I420 size by
MaxPad == 2

\* frame sizes ScreenShareService builds its pipeline for: multiples of 16
SinkDims == {VAAPI_ALIGNMENT, 2 * VAAPI_ALIGNMENT}

I420Size(width, height) == width * height + 2 * ((width * height) \div 4)

\* a mapped sample of n bytes, each byte tagged with its position
SampleData(n) == [i \in 1..n |-> i % 256]

SinkInputs ==
    {[width |-> w, height |-> h, data |-> SampleData(n)] :
        w \in SinkDims, h \in SinkDims,
        n \in {m \in 0..(I420Size(2 * VAAPI_ALIGNMENT, 2 * VAAPI_ALIGNMENT) + MaxPad) :
                \E w2 \in SinkDims, h2 \in SinkDims :
                    /\ m >= I420Size(w2, h2) - MaxPad
                    /\ m <= I420Size(w2, h2) + MaxPad}}

\* `&data[a..b]`: out of range when a > b or b > data.len()
Slice(data, a, b) ==
    IF a > b \/ b > Len(data)
        THEN [ok |-> FALSE, s |-> <<>>]
        ELSE [ok |-> TRUE, s |-> SubSeq(data, a + 1, b)]

\* `&data[a..]`: everything from a to the end
SliceFrom(data, a) == Slice(data, a, Len(data))

\* `dst[..n].copy_from_slice(src)`: panics when n exceeds dst or when the
\* two slices differ in length
CopyPrefix(dst, n, src) ==
    IF ~src.ok \/ n > Len(dst) \/ Len(src.s) # n
        THEN [ok |-> FALSE, s |-> dst]
        ELSE [ok |-> TRUE,
              s |-> [i \in 1..Len(dst) |-> IF i <= n THEN src.s[i] ELSE dst[i]]]

\* a plane of I420Buffer::new before anything is copied into it
FreshPlane(len) == [i \in 1..len |-> Unwritten]

SinkResult(outcome, frames, y, u, v) ==
    [outcome |-> outcome, frames |-> frames, y |-> y, u |-> u, v |-> v]

\* the new_sample callback of setup_software_sink, from the mapped sample on
software_sink(width, height, data) ==
    LET y_size == width * height
        uv_size == (width * height) \div 4
        y_plane == FreshPlane(YLen(width, height))
        u_plane == FreshPlane(UVLen(width, height))
        v_plane == FreshPlane(UVLen(width, height))
    IN  IF Len(data) < y_size + uv_size + uv_size
          THEN SinkResult("skipped", 0, <<>>, <<>>, <<>>)
        ELSE IF ~(Len(y_plane) >= y_size /\ Len(u_plane) >= uv_size
                    /\ Len(v_plane) >= uv_size)
          THEN SinkResult("delivered", 1, y_plane, u_plane, v_plane)
        ELSE LET cy == CopyPrefix(y_plane, y_size, Slice(data, 0, y_size))
                 cu == CopyPrefix(u_plane, uv_size,
                                  Slice(data, y_size, y_size + uv_size))
                 cv == CopyPrefix(v_plane, uv_size,
                                  SliceFrom(data, y_size + uv_size))
             IN  IF cy.ok /\ cu.ok /\ cv.ok
                   THEN SinkResult("delivered", 1, cy.s, cu.s, cv.s)
                   ELSE SinkResult("panicked", 0, cy.s, cu.s, cv.s)

\* copy_i420_data and the callback of GpuColorConverter around it: each
\* plane is copied when the sample reaches its end, and the frame is
\* delivered in any case
copy_i420_data(width, height, data) ==
    LET y_size == width * height
        uv_size == (width * height) \div 4
        u_offset == y_size
        v_offset == y_size + uv_size
        y_plane == FreshPlane(YLen(width, height))
        u_plane == FreshPlane(UVLen(width, height))
        v_plane == FreshPlane(UVLen(width, height))
        cy == IF Len(data) >= y_size
                THEN CopyPrefix(y_plane, y_size, Slice(data, 0, y_size))
                ELSE [ok |-> TRUE, s |-> y_plane]
        cu == IF Len(data) >= u_offset + uv_size
                THEN CopyPrefix(u_plane, uv_size,
                                Slice(data, u_offset, u_offset + uv_size))
                ELSE [ok |-> TRUE, s |-> u_plane]
        cv == IF Len(data) >= v_offset + uv_size
                THEN CopyPrefix(v_plane, uv_size,
                                Slice(data, v_offset, v_offset + uv_size))
                ELSE [ok |-> TRUE, s |-> v_plane]
    IN  IF cy.ok /\ cu.ok /\ cv.ok
          THEN SinkResult("delivered", 1, cy.s, cu.s, cv.s)
          ELSE SinkResult("panicked", 0, cy.s, cu.s, cv.s)

SinkFns == {"setup_software_sink", "copy_i420_data"}

InitSinkCall ==
    /\ pf_fn \in SinkFns
    /\ pf_in \in SinkInputs
    /\ pf_out = <<>>

SoftwareSample ==
    /\ pf_fn = "setup_software_sink" /\ pf_out = <<>>
    /\ pf_out' = <<software_sink(pf_in.width, pf_in.height, pf_in.data)>>
    /\ UNCHANGED <<pf_fn, pf_in>>

GpuSample ==
    /\ pf_fn = "copy_i420_data" /\ pf_out = <<>>
    /\ pf_out' = <<copy_i420_data(pf_in.width, pf_in.height, pf_in.data)>>
    /\ UNCHANGED <<pf_fn, pf_in>>

InitSink == InitAudio /\ InitCapIdle /\ InitPortalIdle /\ InitGenIdle
            /\ InitCreateIdle /\ InitLoopIdle /\ InitSinkCall

NextSink ==
    \/ SoftwareSample /\ UNCHANGED notPure
    \/ GpuSample /\ UNCHANGED notPure

SpecSink == InitSink /\ [][NextSink]_vars

\* every sample of the plane has been written
Filled(plane) == \A i \in DOMAIN plane : plane[i] # Unwritten

\* C40: the software-mode callback never fails abruptly: a sample shorter
\* than W*H + 2*(W*H/4) bytes is skipped and delivers nothing, and a sample
\* of at least that length, padded ones included, delivers exactly one frame
\* with all three planes filled.
C40_SoftwareSinkNeverFails ==
    (Returned /\ pf_fn = "setup_software_sink") =>
        /\ Result.outcome # "panicked"
        /\ Len(pf_in.data) < I420Size(pf_in.width, pf_in.height) =>
              (Result.outcome = "skipped" /\ Result.frames = 0)
        /\ Len(pf_in.data) >= I420Size(pf_in.width, pf_in.height) =>
              /\ Result.outcome = "delivered"
              /\ Result.frames = 1
              /\ Filled(Result.y) /\ Filled(Result.u) /\ Filled(Result.v)

====
